---- MODULE Spec2Model ----
(***************************************************************************)
(* A model of the GraphScript (.gsrc) reader of madmax-gsrc-editor:        *)
(*   - the Jenkins lookup3 hash and the hash registry (utils/hash.ts),     *)
(*   - the ADF container reader (parser/adf-reader.ts),                    *)
(*   - the GraphScript decoder and connection extractor                    *)
(*     (parser/gsrc-parser.ts),                                            *)
(*   - the layered layout engine (utils/gsrc-to-flow.ts, two revisions).   *)
(*                                                                         *)
(* A 32-bit unsigned value is a pair <<hi, lo>> of 16-bit halves, so that  *)
(* hashes above 2^31 are representable.  A string is the tuple of its      *)
(* UTF-8 bytes.  A byte buffer is a tuple of bytes, index 1 = offset 0.    *)
(***************************************************************************)
EXTENDS Integers, Sequences, FiniteSets, TLC

\* ------------------------------------------------------------------------
\* 32-bit unsigned arithmetic on <<hi, lo>> pairs
\* ------------------------------------------------------------------------

Half == 256 * 256

W32(hi, lo) == <<hi, lo>>

Add32(a, b) ==
  LET lo == a[2] + b[2]
      hi == a[1] + b[1] + (lo \div Half)
  IN  <<hi % Half, lo % Half>>

Not32(a) == <<(Half - 1) - a[1], (Half - 1) - a[2]>>

Sub32(a, b) == Add32(a, Add32(Not32(b), <<0, 1>>))

RECURSIVE Xor16(_, _)
Xor16(x, y) ==
  IF x = 0 THEN y
  ELSE IF y = 0 THEN x
  ELSE (((x % 2) + (y % 2)) % 2) + 2 * Xor16(x \div 2, y \div 2)

Xor32(a, b) == <<Xor16(a[1], b[1]), Xor16(a[2], b[2])>>

RECURSIVE Pow2(_)
Pow2(k) == IF k = 0 THEN 1 ELSE 2 * Pow2(k - 1)

\* (x << k) | (x >>> (32 - k)), 0 <= k < 32
RECURSIVE Rot32(_, _)
Rot32(a, k) ==
  IF k = 0 THEN a
  ELSE IF k >= 16 THEN Rot32(<<a[2], a[1]>>, k - 16)
  ELSE LET p == Pow2(k)
           q == Pow2(16 - k)
       IN  <<((a[1] * p) % Half) + (a[2] \div q),
             ((a[2] * p) % Half) + (a[1] \div q)>>

\* The numeric value of a u32 used as an offset, a count or an index.  A JS
\* number holds every u32 exactly; here values from 2^30 on are all read as
\* 2^30, which no buffer of the model reaches, so that every bounds test and
\* every comparison with a length has the outcome it has in the code.
Num(w) == IF w[1] < 16384 THEN w[1] * Half + w[2] ELSE 16384 * Half

ToW32(n) == <<n \div Half, n % Half>>

\* ------------------------------------------------------------------------
\* jenkinsLookup3 (utils/hash.ts)
\* ------------------------------------------------------------------------

\* k[offset + i] of the key bytes; absent bytes contribute nothing
KeyByte(k, i) == IF i >= 1 /\ i <= Len(k) THEN k[i] ELSE 0

\* k[o] | k[o+1] << 8 | k[o+2] << 16 | k[o+3] << 24  (o is a 0-based offset)
KeyWord(k, o) ==
  <<KeyByte(k, o + 3) + 256 * KeyByte(k, o + 4),
    KeyByte(k, o + 1) + 256 * KeyByte(k, o + 2)>>

\* a += k[o..o+3]; b += k[o+4..o+7]; c += k[o+8..o+11]
AddKey(t, k, o) ==
  <<Add32(t[1], KeyWord(k, o)), Add32(t[2], KeyWord(k, o + 4)),
    Add32(t[3], KeyWord(k, o + 8))>>

\* the three statement shapes of the mix schedule, on t = <<a, b, c>>
\* a -= c; a ^= rot(c, r); c += b
MixA(t, r) == <<Xor32(Sub32(t[1], t[3]), Rot32(t[3], r)), t[2], Add32(t[3], t[2])>>
\* b -= a; b ^= rot(a, r); a += c
MixB(t, r) == <<Add32(t[1], t[3]), Xor32(Sub32(t[2], t[1]), Rot32(t[1], r)), t[3]>>
\* c -= b; c ^= rot(b, r); b += a
MixC(t, r) == <<t[1], Add32(t[2], t[1]), Xor32(Sub32(t[3], t[2]), Rot32(t[2], r))>>

\* one 12-byte block of the while loop
JenkinsMix(t, k, o) ==
  MixC(MixB(MixA(MixC(MixB(MixA(AddKey(t, k, o), 4), 6), 8), 16), 19), 4)

RECURSIVE JenkinsBlocks(_, _, _)
JenkinsBlocks(t, k, o) ==
  IF Len(k) - o > 12 THEN JenkinsBlocks(JenkinsMix(t, k, o), k, o + 12)
  ELSE <<t, o>>

\* the three statement shapes of the final schedule
\* c ^= b; c -= rot(b, r)
FinC(t, r) == <<t[1], t[2], Sub32(Xor32(t[3], t[2]), Rot32(t[2], r))>>
\* a ^= c; a -= rot(c, r)
FinA(t, r) == <<Sub32(Xor32(t[1], t[3]), Rot32(t[3], r)), t[2], t[3]>>
\* b ^= a; b -= rot(a, r)
FinB(t, r) == <<t[1], Sub32(Xor32(t[2], t[1]), Rot32(t[1], r)), t[3]>>

JenkinsFinal(t) ==
  FinC(FinB(FinA(FinC(FinB(FinA(FinC(t, 14), 11), 25), 16), 4), 14), 24)

\* the switch on the remaining 1..12 bytes adds them to a, b, c like a block
\* whose absent bytes are zero; 0 remaining bytes return c unmixed
JenkinsTail(blk, key) ==
  IF Len(key) - blk[2] = 0 THEN blk[1][3]
  ELSE JenkinsFinal(AddKey(blk[1], key, blk[2]))[3]

JenkinsStart(key, initval) == Add32(Add32(<<57005, 48879>>, ToW32(Len(key))), initval)

JenkinsSeed(w) == <<w, w, w>>

jenkinsLookup3(key, initval) ==
  JenkinsTail(JenkinsBlocks(JenkinsSeed(JenkinsStart(key, initval)), key, 0), key)

hashString(s) == jenkinsLookup3(s, <<0, 0>>)


\* ------------------------------------------------------------------------
\* Byte buffers and DataView reads
\* ------------------------------------------------------------------------

\* DataView.getUint32 / getUint8 throw a RangeError when the read leaves the
\* buffer; InBuf is the test that decides it.
InBuf(b, off, width) == off >= 0 /\ off + width <= Len(b)

\* DataView.getUint32(off, littleEndian) on an in-range offset
GetUint32(b, off, le) ==
  IF le THEN <<b[off + 3] + 256 * b[off + 4], b[off + 1] + 256 * b[off + 2]>>
  ELSE <<b[off + 2] + 256 * b[off + 1], b[off + 4] + 256 * b[off + 3]>>

\* Uint8Array.subarray(from, to) clamps both ends to the array
Subarray(b, from, to) ==
  LET f == IF from > Len(b) THEN Len(b) ELSE from
      t == IF to > Len(b) THEN Len(b) ELSE to
  IN  IF t <= f THEN <<>> ELSE [i \in 1..(t - f) |-> b[f + i]]

\* ------------------------------------------------------------------------
\* State
\* ------------------------------------------------------------------------

VARIABLES
  \* utils/hash.ts
  KNOWN_HASHES,    \* the registry: a function from hash to string
  KNOWN_STRINGS,   \* the curated list registered first at module load
  HASHC_STRINGS,   \* the bulk dictionary registered second at module load
  regIdx,          \* number of list entries processed by the module-load loops
  regCalls,        \* number of registerHashString calls made after module load
  regLog,          \* history: every string offered for registration, in order,
                   \* and whether the offer wrote the registry
  regPrev          \* history: the registry before the latest registration

regVars == <<KNOWN_HASHES, KNOWN_STRINGS, HASHC_STRINGS, regIdx, regCalls, regLog,
             regPrev>>

VARIABLES
  \* parser/adf-reader.ts and parser/gsrc-parser.ts
  buf,             \* the input ArrayBuffer
  pc,              \* how far parse() has come
  err,             \* the error parse() threw, "none" while it has thrown none
  littleEndian,    \* AdfReader.littleEndian
  header,          \* AdfReader.header
  types,           \* AdfReader.types
  instances,       \* AdfReader.instances
  graph,           \* the GSGraph decoded by parseGraph
  connections      \* the result of extractConnections

parseVars == <<buf, pc, err, littleEndian, header, types, instances, graph, connections>>

\* the layout: the input of layoutNodes and what each revision returns
VARIABLES
  layoutNodeCount,     \* graph.nodes.length
  layoutConns,   \* the connection list handed to layoutNodes
  laidOut,       \* layoutNodes (compaction and split) has run
  layout,        \* its stages and result
  laidOutV1,     \* layoutNodes (variable nodes under targets) has run
  layoutV1,      \* its stages and result
  laidOutAgain,  \* layoutNodes has run a second time on the same input
  layoutAgain    \* the position map of the second run

layVars == <<layoutNodeCount, layoutConns, laidOut, layout, laidOutV1, layoutV1,
             laidOutAgain, layoutAgain>>

VARIABLES
  \* parser/gsrc-parser.ts, getVariableValueType
  vtClass,       \* the class name handed to getVariableValueType
  vtDone,        \* the call has returned
  vtType         \* the value type it returned

vtVars == <<vtClass, vtDone, vtType>>

vars == <<regVars, parseVars, layVars, vtVars>>

\* ------------------------------------------------------------------------
\* Strings of the model (UTF-8 bytes)
\* ------------------------------------------------------------------------

StrName == <<78, 97, 109, 101>>                                   \* "Name"
StrValue == <<86, 97, 108, 117, 101>>                             \* "Value"
StrBaal == <<98, 97, 97, 108>>                                    \* "baal"
StrDfad == <<100, 102, 97, 100>>                                  \* "dfad"

\* "baal" and "dfad" have the same lookup3 hash, 0xC59EA07B
RegStrings == {StrName, StrBaal, StrDfad}

MaxList == 2
MaxRegs == 2

SeqsUpTo(S, n) == UNION {[1..k -> S] : k \in 0..n}

\* ------------------------------------------------------------------------
\* The hash registry (utils/hash.ts)
\* ------------------------------------------------------------------------

HexDigit(d) == IF d < 10 THEN 48 + d ELSE 55 + d

Hex16(x) ==
  <<HexDigit(x \div 4096), HexDigit((x \div 256) % 16),
    HexDigit((x \div 16) % 16), HexDigit(x % 16)>>

\* `0x${hash.toString(16).padStart(8, '0').toUpperCase()}`
HexName(h) == <<48, 120>> \o Hex16(h[1]) \o Hex16(h[2])

LookupHash(reg, h) == IF h \in DOMAIN reg THEN reg[h] ELSE HexName(h)

resolveHash(h) == LookupHash(KNOWN_HASHES, h)

\* KNOWN_HASHES[h] = s
PutHash(reg, h, s) == [x \in (DOMAIN reg) \cup {h} |-> IF x = h THEN s ELSE reg[x]]

\* if (!(h in KNOWN_HASHES)) KNOWN_HASHES[h] = s
PutHashIfAbsent(reg, h, s) == IF h \in DOMAIN reg THEN reg ELSE PutHash(reg, h, s)

\* a registry with open addressing: an occupied slot sends the string to the
\* next hash.  Registry idempotence (C5) must reject it.
RegisterIntoProbing(reg, s) ==
  IF hashString(s) \in DOMAIN reg
  THEN PutHash(reg, Add32(hashString(s), <<0, 1>>), s)
  ELSE PutHash(reg, hashString(s), s)

\* the body of registerHashString, on the registry
RegisterInto(reg, s) == PutHash(reg, hashString(s), s)

\* one iteration of `for (const s of KNOWN_STRINGS)`
RegisterCurated ==
  /\ regIdx < Len(KNOWN_STRINGS)
  /\ LET s == KNOWN_STRINGS[regIdx + 1]
     IN  /\ KNOWN_HASHES' = PutHash(KNOWN_HASHES, hashString(s), s)
         /\ regLog' = Append(regLog, [s |-> s, stored |-> TRUE])
  /\ regPrev' = KNOWN_HASHES
  /\ regIdx' = regIdx + 1
  /\ UNCHANGED <<KNOWN_STRINGS, HASHC_STRINGS, regCalls, parseVars, layVars, vtVars>>

\* one iteration of `for (const s of HASHC_STRINGS)`
RegisterBulk ==
  /\ regIdx >= Len(KNOWN_STRINGS)
  /\ regIdx < Len(KNOWN_STRINGS) + Len(HASHC_STRINGS)
  /\ LET s == HASHC_STRINGS[regIdx - Len(KNOWN_STRINGS) + 1]
     IN  /\ KNOWN_HASHES' = PutHashIfAbsent(KNOWN_HASHES, hashString(s), s)
         /\ regLog' = Append(regLog, [s |-> s, stored |-> hashString(s) \notin DOMAIN KNOWN_HASHES])
  /\ regPrev' = KNOWN_HASHES
  /\ regIdx' = regIdx + 1
  /\ UNCHANGED <<KNOWN_STRINGS, HASHC_STRINGS, regCalls, parseVars, layVars, vtVars>>

\* registerHashString(s), callable once the module has loaded
registerHashString(s) ==
  /\ regIdx = Len(KNOWN_STRINGS) + Len(HASHC_STRINGS)
  /\ regCalls < MaxRegs
  /\ KNOWN_HASHES' = RegisterInto(KNOWN_HASHES, s)
  /\ regLog' = Append(regLog, [s |-> s, stored |-> TRUE])
  /\ regPrev' = KNOWN_HASHES
  /\ regCalls' = regCalls + 1
  /\ UNCHANGED <<KNOWN_STRINGS, HASHC_STRINGS, regIdx, parseVars, layVars, vtVars>>

\* layoutNodes has not been called
IdleLayout ==
  /\ layoutNodeCount = 0
  /\ layoutConns = <<>>
  /\ laidOut = FALSE
  /\ layout = <<>>
  /\ laidOutV1 = FALSE
  /\ layoutV1 = <<>>
  /\ laidOutAgain = FALSE
  /\ layoutAgain = <<>>

\* no buffer has been handed to the parser
\* no call of getVariableValueType is modelled
IdleValueType ==
  /\ vtClass = <<>>
  /\ vtDone = FALSE
  /\ vtType = ""

IdleParser ==
  /\ buf = <<>>
  /\ pc = "idle"
  /\ err = "none"
  /\ littleEndian = TRUE
  /\ header = <<>>
  /\ types = <<>>
  /\ instances = <<>>
  /\ graph = <<>>
  /\ connections = <<>>

InitRegistry ==
  /\ KNOWN_HASHES = <<>>
  /\ KNOWN_STRINGS \in SeqsUpTo(RegStrings, MaxList)
  /\ HASHC_STRINGS \in SeqsUpTo(RegStrings, MaxList)
  /\ regIdx = 0
  /\ regCalls = 0
  /\ regLog = <<>>
  /\ regPrev = <<>>
  /\ IdleParser
  /\ IdleValueType
  /\ IdleLayout

NextRegistry ==
  \/ RegisterCurated
  \/ RegisterBulk
  \/ \E s \in RegStrings : registerHashString(s)

SpecRegistry == InitRegistry /\ [][NextRegistry]_vars

\* ------------------------------------------------------------------------
\* Results of operations that can throw
\* ------------------------------------------------------------------------

\* A DataView read outside the buffer throws a RangeError, which ends parse():
\* this is the failure the specification calls Truncated.  Unbounded recursion
\* ends in the engine's stack overflow.
Ok(v) == [ok |-> TRUE, v |-> v, err |-> "none"]
Fail(kind) == [ok |-> FALSE, v |-> <<>>, err |-> kind]

\* ------------------------------------------------------------------------
\* AdfReader: the ADF container reader (parser/adf-reader.ts)
\* ------------------------------------------------------------------------

ADF_MAGIC_LE == <<16708, 17952>>     \* 0x41444620
ADF_MAGIC_BE == <<8262, 17473>>      \* 0x20464441

\* readCString: the bytes from offset up to the first 0 or the end of the data
RECURSIVE CStringEnd(_, _)
CStringEnd(b, end) == IF end < Len(b) /\ b[end + 1] # 0 THEN CStringEnd(b, end + 1) ELSE end

readCString(b, offset) == Subarray(b, offset, CStringEnd(b, offset))

readTypeName(b, typeStart, nameOffset) ==
  IF nameOffset = 0 THEN <<>> ELSE readCString(b, typeStart + nameOffset)

\* readStringFromTable: skip `index` strings from the table's start
RECURSIVE StringTableOffset(_, _, _)
StringTableOffset(b, offset, index) ==
  IF index = 0 THEN offset
  ELSE StringTableOffset(b, CStringEnd(b, offset) + 1, index - 1)

readStringFromTable(b, firstStringDataOffset, index) ==
  readCString(b, StringTableOffset(b, firstStringDataOffset, index))

\* the u32 header field at off, as a number
Field(b, off, le) == Num(GetUint32(b, off, le))

\* the three header layouts
HeaderV4(b, le, magic) ==
  [fourCC |-> magic, version |-> 4,
   instanceCount |-> Field(b, 8, le), firstInstanceOffset |-> Field(b, 12, le),
   typeCount |-> Field(b, 16, le), firstTypeOffset |-> Field(b, 20, le),
   stringHashCount |-> Field(b, 24, le), firstStringHashOffset |-> Field(b, 28, le),
   stringCount |-> Field(b, 32, le), firstStringDataOffset |-> Field(b, 36, le),
   fileSize |-> Field(b, 40, le), description |-> readCString(b, 64)]

HeaderV3(b, le, magic) ==
  [fourCC |-> magic, version |-> 3,
   instanceCount |-> Field(b, 8, le), firstInstanceOffset |-> Field(b, 12, le),
   typeCount |-> Field(b, 16, le), firstTypeOffset |-> Field(b, 20, le),
   stringHashCount |-> Field(b, 24, le), firstStringHashOffset |-> Field(b, 28, le),
   stringCount |-> 0, firstStringDataOffset |-> 0,
   fileSize |-> 0, description |-> <<>>]

HeaderV2(b, le, magic) ==
  [fourCC |-> magic, version |-> 2,
   instanceCount |-> Field(b, 8, le), firstInstanceOffset |-> Field(b, 12, le),
   typeCount |-> Field(b, 16, le), firstTypeOffset |-> Field(b, 20, le),
   stringHashCount |-> 0, firstStringHashOffset |-> 0,
   stringCount |-> 0, firstStringDataOffset |-> 0,
   fileSize |-> 0, description |-> <<>>]

\* every u32 read of b in [from, to], 4 apart, stays inside the buffer
ReadsInBuf(b, from, to) == \A k \in 0..((to - from) \div 4) : InBuf(b, from + 4 * k, 4)

\* a reader that takes every unknown version for the version-2 layout.  The
\* version gate (C9) must reject it.
HeaderFieldsAnyVersion(b, le, magic) ==
  IF ~InBuf(b, 4, 4) THEN Fail("Truncated")
  ELSE IF GetUint32(b, 4, le) = <<0, 4>>
       THEN (IF ReadsInBuf(b, 8, 40) THEN Ok(HeaderV4(b, le, magic)) ELSE Fail("Truncated"))
  ELSE IF GetUint32(b, 4, le) = <<0, 3>>
       THEN (IF ReadsInBuf(b, 8, 28) THEN Ok(HeaderV3(b, le, magic)) ELSE Fail("Truncated"))
  ELSE (IF ReadsInBuf(b, 8, 20) THEN Ok(HeaderV2(b, le, magic)) ELSE Fail("Truncated"))

\* the part of parseHeader after the magic is accepted: le is this.littleEndian
HeaderFields(b, le, magic) ==
  IF ~InBuf(b, 4, 4) THEN Fail("Truncated")
  ELSE IF GetUint32(b, 4, le) = <<0, 4>>
       THEN (IF ReadsInBuf(b, 8, 40) THEN Ok(HeaderV4(b, le, magic)) ELSE Fail("Truncated"))
  ELSE IF GetUint32(b, 4, le) = <<0, 3>>
       THEN (IF ReadsInBuf(b, 8, 28) THEN Ok(HeaderV3(b, le, magic)) ELSE Fail("Truncated"))
  ELSE IF GetUint32(b, 4, le) = <<0, 2>>
       THEN (IF ReadsInBuf(b, 8, 20) THEN Ok(HeaderV2(b, le, magic)) ELSE Fail("Truncated"))
  ELSE Fail("UnsupportedVersion")

\* a reader that takes the two magics the wrong way round.  Endianness
\* selection (C8) must reject it.
MagicEndianSwapped(magic) ==
  IF magic = ADF_MAGIC_LE THEN <<FALSE>>
  ELSE IF magic = ADF_MAGIC_BE THEN <<TRUE>>
  ELSE <<>>

\* the endianness the magic selects: <<TRUE>>, <<FALSE>>, or <<>> for neither
MagicEndian(magic) ==
  IF magic = ADF_MAGIC_LE THEN <<TRUE>>
  ELSE IF magic = ADF_MAGIC_BE THEN <<FALSE>>
  ELSE <<>>

\* parseHeader: v is [le, header]
parseHeader(b) ==
  IF ~InBuf(b, 0, 4) THEN Fail("Truncated")
  ELSE LET e == MagicEndian(GetUint32(b, 0, TRUE))
       IN  IF e = <<>> THEN Fail("BadMagic")
           ELSE LET h == HeaderFields(b, e[1], GetUint32(b, 0, TRUE))
                IN  IF h.ok THEN Ok([le |-> e[1], header |-> h.v]) ELSE Fail(h.err)

\* one member record: eight u32 at memberOff
ReadMember(b, le, typeStart, memberOff) ==
  [name         |-> readTypeName(b, typeStart, Field(b, memberOff + 24, le)),
   nameHash     |-> GetUint32(b, memberOff, le),
   typeHash     |-> GetUint32(b, memberOff + 4, le),
   size         |-> Field(b, memberOff + 12, le),
   \* mOffset & 0xFFFFFF
   offset       |-> (GetUint32(b, memberOff + 8, le)[1] % 256) * Half
                    + GetUint32(b, memberOff + 8, le)[2],
   defaultValue |-> GetUint32(b, memberOff + 20, le),
   bitOffset    |-> Field(b, memberOff + 16, le)]

RECURSIVE ParseMemberLoop(_, _, _, _, _, _, _)
ParseMemberLoop(b, le, typeStart, memberOff, m, count, acc) ==
  IF m >= count THEN Ok(acc)
  ELSE IF ReadsInBuf(b, memberOff, memberOff + 28)
       THEN ParseMemberLoop(b, le, typeStart, memberOff + 32, m + 1, count,
                            Append(acc, ReadMember(b, le, typeStart, memberOff)))
       ELSE Fail("Truncated")

ParseMembers(b, le, typeStart, memberCount, membersOffset) ==
  IF memberCount > 0 /\ membersOffset > 0
  THEN ParseMemberLoop(b, le, typeStart, typeStart + membersOffset, 0, memberCount, <<>>)
  ELSE Ok(<<>>)

\* the AdfType built from the eight header u32 at typeStart and its members;
\* subTypeHash is <<>> when the code leaves it unset
MakeType(b, le, typeStart, members) ==
  [nameHash    |-> GetUint32(b, typeStart + 12, le),
   name        |-> readTypeName(b, typeStart, Field(b, typeStart + 16, le)),
   adfType     |-> Field(b, typeStart, le),
   size        |-> Field(b, typeStart + 4, le),
   alignment   |-> Field(b, typeStart + 8, le),
   memberCount |-> Field(b, typeStart + 24, le),
   members     |-> members,
   subTypeHash |-> IF Field(b, typeStart, le) \in {3, 4} /\ Len(members) > 0
                   THEN members[1].typeHash ELSE <<>>]

\* this.types.set(nameHash, type)
SetType(tmap, t) ==
  [x \in (DOMAIN tmap) \cup {t.nameHash} |-> IF x = t.nameHash THEN t ELSE tmap[x]]

RECURSIVE ParseTypeLoop(_, _, _, _, _, _)
ParseTypeLoop(b, le, offset, i, count, tmap) ==
  IF i >= count THEN Ok(tmap)
  ELSE IF ~ReadsInBuf(b, offset, offset + 28) THEN Fail("Truncated")
  ELSE LET ms == ParseMembers(b, le, offset, Field(b, offset + 24, le),
                              Field(b, offset + 28, le))
       IN  IF ms.ok
           THEN ParseTypeLoop(b, le, offset + 32 + Field(b, offset + 24, le) * 32,
                              i + 1, count, SetType(tmap, MakeType(b, le, offset, ms.v)))
           ELSE Fail(ms.err)

parseTypes(b, le, hdr) ==
  ParseTypeLoop(b, le, hdr.firstTypeOffset, 0, hdr.typeCount, <<>>)

\* `instance_${i}`
InstanceName(i) == <<105, 110, 115, 116, 97, 110, 99, 101, 95, 48 + i>>

ReadInstanceV4(b, le, hdr, offset, i) ==
  [nameHash      |-> GetUint32(b, offset, le),
   typeHash      |-> GetUint32(b, offset + 4, le),
   payloadOffset |-> Field(b, offset + 8, le),
   payloadSize   |-> Field(b, offset + 12, le),
   name          |-> IF /\ hdr.firstStringDataOffset > 0
                        /\ Field(b, offset + 16, le) < hdr.stringCount
                     THEN readStringFromTable(b, hdr.firstStringDataOffset,
                                              Field(b, offset + 16, le))
                     ELSE InstanceName(i)]

ReadInstanceOld(b, le, offset, i) ==
  [nameHash      |-> GetUint32(b, offset, le),
   typeHash      |-> GetUint32(b, offset + 4, le),
   payloadOffset |-> Field(b, offset + 8, le),
   payloadSize   |-> Field(b, offset + 12, le),
   name          |-> InstanceName(i)]

RECURSIVE ParseInstanceLoop(_, _, _, _, _, _)
ParseInstanceLoop(b, le, hdr, offset, i, acc) ==
  IF i >= hdr.instanceCount THEN Ok(acc)
  ELSE IF hdr.version >= 4
       THEN (IF ReadsInBuf(b, offset, offset + 16)
             THEN ParseInstanceLoop(b, le, hdr, offset + 24, i + 1,
                                    Append(acc, ReadInstanceV4(b, le, hdr, offset, i)))
             ELSE Fail("Truncated"))
       ELSE (IF ReadsInBuf(b, offset, offset + 12)
             THEN ParseInstanceLoop(b, le, hdr, offset + 48, i + 1,
                                    Append(acc, ReadInstanceOld(b, le, offset, i)))
             ELSE Fail("Truncated"))

parseInstances(b, le, hdr) ==
  ParseInstanceLoop(b, le, hdr, hdr.firstInstanceOffset, 0, <<>>)

\* ------------------------------------------------------------------------
\* GsrcParser: the GraphScript decoder (parser/gsrc-parser.ts)
\* ------------------------------------------------------------------------

HASH_OUTPUT_PINS ==
  hashString(<<111, 117, 116, 112, 117, 116, 95, 112, 105, 110, 115>>)
HASH_VARIABLE_PINS ==
  hashString(<<118, 97, 114, 105, 97, 98, 108, 101, 95, 112, 105, 110, 115>>)

\* this.data[off] !== 0, where an index past the array reads undefined
RefFlag(b, off) == IF off < Len(b) THEN b[off + 1] # 0 ELSE TRUE

\* new Uint8Array(n) with src copied to its start
ZeroFill(src, n) == [i \in 1..n |-> IF i <= Len(src) THEN src[i] ELSE 0]

\* the value of a Data record: empty unless valRel > 0 and valCount > 0
DataValue(b, P, valRel, valCount) ==
  IF valRel > 0 /\ valCount > 0
  THEN ZeroFill(Subarray(b, P + valRel, P + valRel + valCount), valCount)
  ELSE <<>>

\* ---- display values ----
\* A display string is <<"text", bytes>> when the model computes its bytes.
\* A number the code prints in decimal is kept as the bits it is printed
\* from, tagged with the conversion: <<"fixed4", w>> is
\* getFloat32(..).toFixed(4) of the 32 bits w, <<"int32", w>> the signed and
\* <<"uint32", w>> the unsigned decimal form, <<"uint32named", w, name>> is
\* `${v} (${name})`, <<"int64", hi, lo>> and <<"uint64", hi, lo>> the 64-bit
\* decimal forms, <<"vector", w0, w1, w2, w3>> four toFixed(2) floats, and
\* <<"bool", f>> 'true' or 'false'.

\* the type names fmtVal tests d._resolvedType against
Type_float == <<102, 108, 111, 97, 116>>
Type_int == <<105, 110, 116>>
Type_uint32 == <<117, 105, 110, 116, 51, 50>>
Type_bool == <<98, 111, 111, 108>>
Type_int64 == <<105, 110, 116, 54, 52>>
Type_uint64 == <<117, 105, 110, 116, 54, 52>>
Type_vector == <<118, 101, 99, 116, 111, 114>>
Type_enum == <<101, 110, 117, 109>>
Type_string == <<115, 116, 114, 105, 110, 103>>
Type_string_ptr == <<115, 116, 114, 105, 110, 103, 95, 112, 116, 114>>

Text(bytes) == <<"text", bytes>>

\* s.startsWith(p)
StartsWith(str, p) == Len(str) >= Len(p) /\ SubSeq(str, 1, Len(p)) = p

\* b.toString(16).padStart(2, '0')
HexLower(d) == IF d < 10 THEN 48 + d ELSE 87 + d
HexByte(x) == <<HexLower(x \div 16), HexLower(x % 16)>>

\* bytes.map(hex).join(' ')
RECURSIVE HexJoin(_)
HexJoin(bytes) ==
  IF bytes = <<>> THEN <<>>
  ELSE IF Len(bytes) = 1 THEN HexByte(bytes[1])
  ELSE HexByte(bytes[1]) \o <<32>> \o HexJoin(Tail(bytes))

\* the hex fallback of fmtVal: at most 16 bytes, then "..."
HexFallback(value) ==
  IF Len(value) > 16 THEN Text(HexJoin(SubSeq(value, 1, 16)) \o <<46, 46, 46>>)
  ELSE Text(HexJoin(value))

\* r.startsWith('0x') ? v.toString() : `${v} (${r})`
Uint32Display(reg, w) ==
  IF StartsWith(LookupHash(reg, w), <<48, 120>>) THEN <<"uint32", w>>
  ELSE <<"uint32named", w, LookupHash(reg, w)>>

\* the 64 bits at off as <<high word, low word>>
Words64(v, off, le) ==
  IF le THEN <<GetUint32(v, off + 4, le), GetUint32(v, off, le)>>
  ELSE <<GetUint32(v, off, le), GetUint32(v, off + 4, le)>>

FloatsDisplay(v, off, le) ==
  <<"vector", GetUint32(v, off, le), GetUint32(v, off + 4, le),
    GetUint32(v, off + 8, le), GetUint32(v, off + 12, le)>>

\* fmtVal: the display string of a value of resolved type t
fmtVal(reg, value, t, le) ==
  IF Len(value) = 0 THEN Text(<<40, 101, 109, 112, 116, 121, 41>>)       \* (empty)
  ELSE IF t = Type_float /\ Len(value) >= 4 THEN <<"fixed4", GetUint32(value, 0, le)>>
  ELSE IF t = Type_int /\ Len(value) >= 4 THEN <<"int32", GetUint32(value, 0, le)>>
  ELSE IF t = Type_uint32 /\ Len(value) >= 4
       THEN Uint32Display(reg, GetUint32(value, 0, le))
  ELSE IF t = Type_bool /\ Len(value) >= 1 THEN <<"bool", value[1] # 0>>
  ELSE IF t = Type_int64 /\ Len(value) >= 8
       THEN <<"int64", Words64(value, 0, le)[1], Words64(value, 0, le)[2]>>
  ELSE IF t = Type_uint64 /\ Len(value) >= 8
       THEN <<"uint64", Words64(value, 0, le)[1], Words64(value, 0, le)[2]>>
  ELSE IF t = Type_vector /\ Len(value) >= 16 THEN FloatsDisplay(value, 0, le)
  ELSE IF t = Type_enum /\ Len(value) >= 4 THEN <<"int32", GetUint32(value, 0, le)>>
  ELSE IF t \in {Type_string, Type_string_ptr} THEN Text(value)
  ELSE HexFallback(value)

MakeData(reg, b, le, P, base, valRel, valCount) ==
  [name      |-> GetUint32(b, base, le),
   type      |-> GetUint32(b, base + 4, le),
   value     |-> DataValue(b, P, valRel, valCount),
   count     |-> valCount,
   reference |-> RefFlag(b, base + 24),
   resolvedName |-> LookupHash(reg, GetUint32(b, base, le)),
   resolvedType |-> LookupHash(reg, GetUint32(b, base + 4, le)),
   displayValue |-> fmtVal(reg, DataValue(b, P, valRel, valCount),
                           LookupHash(reg, GetUint32(b, base + 4, le)), le)]

parseData(reg, b, le, P, base) ==
  IF /\ InBuf(b, base, 4)
     /\ InBuf(b, base + 4, 4)
     /\ InBuf(b, base + 8, 4)
     /\ InBuf(b, base + 16, 4)
  THEN Ok(MakeData(reg, b, le, P, base, Num(GetUint32(b, base + 8, le)),
                   Num(GetUint32(b, base + 16, le))))
  ELSE Fail("Truncated")

\* for (let i = 0; i < dataCount; i++) data.push(this.parseData(a + i * 0x20))
RECURSIVE ParseDataLoop(_, _, _, _, _, _, _, _)
ParseDataLoop(reg, b, le, P, a, i, count, acc) ==
  IF i >= count THEN Ok(acc)
  ELSE IF parseData(reg, b, le, P, a + i * 32).ok
       THEN ParseDataLoop(reg, b, le, P, a, i + 1, count,
                          Append(acc, parseData(reg, b, le, P, a + i * 32).v))
       ELSE Fail("Truncated")

ParseDataItems(reg, b, le, P, dataRel, dataCount) ==
  IF dataRel > 0 /\ dataCount > 0
  THEN ParseDataLoop(reg, b, le, P, P + dataRel, 0, dataCount, <<>>)
  ELSE Ok(<<>>)

MakeDataSet(reg, name, data, dataSets) ==
  [name |-> name, data |-> data, dataSets |-> dataSets,
   resolvedName |-> LookupHash(reg, name)]

RECURSIVE parseDataSet(_, _, _, _, _, _)
RECURSIVE ParseDataSetLoop(_, _, _, _, _, _, _, _, _)

\* for (let i = 0; i < dsCount; i++) dataSets.push(this.parseDataSet(a + i * 0x30))
ParseDataSetLoop(reg, b, le, P, a, i, count, acc, fuel) ==
  IF i >= count THEN Ok(acc)
  ELSE LET ds == parseDataSet(reg, b, le, P, a + i * 48, fuel)
       IN  IF ds.ok
           THEN ParseDataSetLoop(reg, b, le, P, a, i + 1, count, Append(acc, ds.v), fuel)
           ELSE Fail(ds.err)

ParseChildSets(reg, b, le, P, dsRel, dsCount, fuel) ==
  IF dsRel > 0 /\ dsCount > 0
  THEN ParseDataSetLoop(reg, b, le, P, P + dsRel, 0, dsCount, <<>>, fuel)
  ELSE Ok(<<>>)

\* the body of parseDataSet after its five header reads
DataSetBody(reg, b, le, P, base, data, fuel) ==
  IF ~data.ok THEN Fail(data.err)
  ELSE LET kids == ParseChildSets(reg, b, le, P, Num(GetUint32(b, base + 24, le)),
                                  Num(GetUint32(b, base + 32, le)), fuel)
       IN  IF kids.ok
           THEN Ok(MakeDataSet(reg, GetUint32(b, base, le), data.v, kids.v))
           ELSE Fail(kids.err)

\* fuel is the call depth left before the engine's stack overflows
parseDataSet(reg, b, le, P, base, fuel) ==
  IF fuel = 0 THEN Fail("StackOverflow")
  ELSE IF /\ InBuf(b, base, 4)
          /\ InBuf(b, base + 8, 4)
          /\ InBuf(b, base + 16, 4)
          /\ InBuf(b, base + 24, 4)
          /\ InBuf(b, base + 32, 4)
       THEN DataSetBody(reg, b, le, P, base,
                        ParseDataItems(reg, b, le, P, Num(GetUint32(b, base + 8, le)),
                                       Num(GetUint32(b, base + 16, le))),
                        fuel - 1)
       ELSE Fail("Truncated")

MakeNode(reg, b, le, base, index, ds) ==
  IF ds.ok
  THEN Ok([classHash     |-> GetUint32(b, base, le),
           functionHash  |-> GetUint32(b, base + 8, le),
           dataSet       |-> ds.v,
           resolvedClass |-> LookupHash(reg, GetUint32(b, base, le)),
           index         |-> index])
  ELSE Fail(ds.err)

\* parseNode, with the _index parseGraph gives the node
parseNode(reg, b, le, P, base, index, fuel) ==
  IF InBuf(b, base, 4) /\ InBuf(b, base + 8, 4)
  THEN MakeNode(reg, b, le, base, index, parseDataSet(reg, b, le, P, base + 16, fuel))
  ELSE Fail("Truncated")

\* for (let i = 0; i < nodesCount; i++) nodes.push(parseNode(a + i * 0x40))
RECURSIVE ParseNodeLoop(_, _, _, _, _, _, _, _, _)
ParseNodeLoop(reg, b, le, P, a, i, count, acc, fuel) ==
  IF i >= count THEN Ok(acc)
  ELSE LET n == parseNode(reg, b, le, P, a + i * 64, i, fuel)
       IN  IF n.ok
           THEN ParseNodeLoop(reg, b, le, P, a, i + 1, count, Append(acc, n.v), fuel)
           ELSE Fail(n.err)

ParseNodes(reg, b, le, P, nodesRel, nodesCount, fuel) ==
  IF nodesRel > 0 /\ nodesCount > 0
  THEN ParseNodeLoop(reg, b, le, P, P + nodesRel, 0, nodesCount, <<>>, fuel)
  ELSE Ok(<<>>)

\* the body of parseGraph after its two header reads
GraphBody(reg, b, le, P, base, globalData, fuel) ==
  IF ~globalData.ok THEN Fail(globalData.err)
  ELSE LET nodes == ParseNodes(reg, b, le, P, Num(GetUint32(b, base, le)),
                               Num(GetUint32(b, base + 8, le)), fuel)
       IN  IF nodes.ok
           THEN Ok([nodes |-> nodes.v, data |-> globalData.v])
           ELSE Fail(nodes.err)

parseGraph(reg, b, le, P, base, fuel) ==
  IF InBuf(b, base, 4) /\ InBuf(b, base + 8, 4)
  THEN GraphBody(reg, b, le, P, base, parseData(reg, b, le, P, base + 16), fuel)
  ELSE Fail("Truncated")

\* ---- resolveVariableNodeData ----

\* the class-name prefixes the parser tests
Cls_Variable == <<86, 97, 114, 105, 97, 98, 108, 101>>
Cls_ExternalVariable == <<69, 120, 116, 101, 114, 110, 97, 108, 86, 97, 114, 105, 97, 98, 108, 101>>
Cls_GlobalVariable == <<71, 108, 111, 98, 97, 108, 86, 97, 114, 105, 97, 98, 108, 101>>
Cls_External == <<69, 120, 116, 101, 114, 110, 97, 108>>
Cls_Global == <<71, 108, 111, 98, 97, 108>>
Cls_VariableFloat == <<86, 97, 114, 105, 97, 98, 108, 101, 70, 108, 111, 97, 116>>
Cls_VariableInt == <<86, 97, 114, 105, 97, 98, 108, 101, 73, 110, 116>>
Cls_VariableBool == <<86, 97, 114, 105, 97, 98, 108, 101, 66, 111, 111, 108>>
Cls_VariableUint32 == <<86, 97, 114, 105, 97, 98, 108, 101, 85, 105, 110, 116, 51, 50>>
Cls_VariableUint64 == <<86, 97, 114, 105, 97, 98, 108, 101, 85, 105, 110, 116, 54, 52>>
Cls_VariableString == <<86, 97, 114, 105, 97, 98, 108, 101, 83, 116, 114, 105, 110, 103>>
Cls_VariableStringHash == <<86, 97, 114, 105, 97, 98, 108, 101, 83, 116, 114, 105, 110, 103, 72, 97, 115, 104>>
Cls_VariableVector == <<86, 97, 114, 105, 97, 98, 108, 101, 86, 101, 99, 116, 111, 114>>
Cls_VariableHash == <<86, 97, 114, 105, 97, 98, 108, 101, 72, 97, 115, 104>>
Cls_VariableEnum == <<86, 97, 114, 105, 97, 98, 108, 101, 69, 110, 117, 109>>
Cls_VariableTransform == <<86, 97, 114, 105, 97, 98, 108, 101, 84, 114, 97, 110, 115, 102, 111, 114, 109>>
Cls_VariableEventSend == <<86, 97, 114, 105, 97, 98, 108, 101, 69, 118, 101, 110, 116, 83, 101, 110, 100>>
Cls_VariableEventReceive == <<86, 97, 114, 105, 97, 98, 108, 101, 69, 118, 101, 110, 116, 82, 101, 99, 101, 105, 118, 101>>
Cls_VariableObject == <<86, 97, 114, 105, 97, 98, 108, 101, 79, 98, 106, 101, 99, 116>>
Cls_VariableFile == <<86, 97, 114, 105, 97, 98, 108, 101, 70, 105, 108, 101>>
Cls_VariableGraphFile == <<86, 97, 114, 105, 97, 98, 108, 101, 71, 114, 97, 112, 104, 70, 105, 108, 101>>
Cls_VariableGlobalRef == <<86, 97, 114, 105, 97, 98, 108, 101, 71, 108, 111, 98, 97, 108, 82, 101, 102>>

\* /^(Variable|ExternalVariable|GlobalVariable)/.test(cls)
IsVariableClass(cls) ==
  \/ StartsWith(cls, Cls_Variable)
  \/ StartsWith(cls, Cls_ExternalVariable)
  \/ StartsWith(cls, Cls_GlobalVariable)

\* cls.replace(/^(External|Global)/, '')
ClassBase(cls) ==
  IF StartsWith(cls, Cls_External) THEN SubSeq(cls, Len(Cls_External) + 1, Len(cls))
  ELSE IF StartsWith(cls, Cls_Global) THEN SubSeq(cls, Len(Cls_Global) + 1, Len(cls))
  ELSE cls

\* getVariableValueType, on the base name
ValueTypeOfBase(base) ==
  IF StartsWith(base, Cls_VariableFloat) THEN "float"
  ELSE IF StartsWith(base, Cls_VariableInt) THEN "int"
  ELSE IF StartsWith(base, Cls_VariableBool) THEN "bool"
  ELSE IF StartsWith(base, Cls_VariableUint32) THEN "uint32"
  ELSE IF StartsWith(base, Cls_VariableUint64) THEN "uint64"
  ELSE IF base = Cls_VariableString \/ base = Cls_VariableStringHash THEN "string_hash"
  ELSE IF StartsWith(base, Cls_VariableVector) THEN "vector"
  ELSE IF StartsWith(base, Cls_VariableHash) \/ base = Cls_VariableStringHash
       THEN "string_hash"
  ELSE IF StartsWith(base, Cls_VariableEnum) THEN "enum"
  ELSE IF StartsWith(base, Cls_VariableTransform) THEN "vector"
  ELSE IF StartsWith(base, Cls_VariableEventSend)
          \/ StartsWith(base, Cls_VariableEventReceive) THEN "event"
  ELSE IF \/ StartsWith(base, Cls_VariableObject)
          \/ StartsWith(base, Cls_VariableFile)
          \/ StartsWith(base, Cls_VariableGraphFile)
          \/ StartsWith(base, Cls_VariableGlobalRef) THEN "uint64"
  ELSE "uint32"

getVariableValueType(cls) == ValueTypeOfBase(ClassBase(cls))

\* fmtGlobalValue: the value of type varType at offset of the global blob gd
fmtGlobalValue(reg, gd, offset, varType, le) ==
  IF varType = "float" /\ offset + 4 <= Len(gd) THEN <<"fixed4", GetUint32(gd, offset, le)>>
  ELSE IF varType = "int" /\ offset + 4 <= Len(gd)
       THEN <<"int32", GetUint32(gd, offset, le)>>
  ELSE IF varType = "uint32" /\ offset + 4 <= Len(gd)
       THEN Uint32Display(reg, GetUint32(gd, offset, le))
  ELSE IF varType = "bool" /\ offset + 1 <= Len(gd) THEN <<"bool", gd[offset + 1] # 0>>
  ELSE IF varType = "uint64" /\ offset + 8 <= Len(gd)
       THEN <<"uint64", Words64(gd, offset, le)[1], Words64(gd, offset, le)[2]>>
  ELSE IF varType = "enum" /\ offset + 4 <= Len(gd)
       THEN <<"int32", GetUint32(gd, offset, le)>>
  ELSE IF varType = "string_hash" /\ offset + 4 <= Len(gd)
       THEN Text(LookupHash(reg, GetUint32(gd, offset, le)))
  ELSE IF varType = "vector" /\ offset + 16 <= Len(gd) THEN FloatsDisplay(gd, offset, le)
  ELSE IF varType = "event" THEN Text(<<40, 101, 118, 101, 110, 116, 41>>)    \* (event)
  ELSE IF offset + 4 <= Len(gd) THEN Text(HexName(GetUint32(gd, offset, le)))
  ELSE Text(<<63, 63>>)                                                       \* ??

\* a Name dereference that also stores the word it read in the record's
\* value.  The frame of the resolver (C30) must reject it.
ResolveFieldInPlace(reg, d, gd, varType, le) ==
  IF Len(d.value) < 4 THEN d
  ELSE IF d.resolvedName = StrName /\ Num(GetUint32(d.value, 0, le)) + 4 <= Len(gd)
       THEN [d EXCEPT
               !.displayValue =
                  Text(LookupHash(reg, GetUint32(gd, Num(GetUint32(d.value, 0, le)), le))),
               !.resolvedType = Type_uint32,
               !.value = SubSeq(gd, Num(GetUint32(d.value, 0, le)) + 1,
                                Num(GetUint32(d.value, 0, le)) + 4)]
  ELSE d

\* one field d of a variable node, dereferenced through the blob gd
ResolveField(reg, d, gd, varType, le) ==
  IF Len(d.value) < 4 THEN d
  ELSE IF d.resolvedName = StrName
       THEN (IF Num(GetUint32(d.value, 0, le)) + 4 <= Len(gd)
             THEN [d EXCEPT
                     !.displayValue =
                        Text(LookupHash(reg, GetUint32(gd, Num(GetUint32(d.value, 0, le)), le))),
                     !.resolvedType = Type_uint32]
             ELSE d)
  ELSE IF d.resolvedName = StrValue /\ d.reference
       THEN (IF Num(GetUint32(d.value, 0, le)) < Len(gd)
             THEN [d EXCEPT
                     !.displayValue =
                        fmtGlobalValue(reg, gd, Num(GetUint32(d.value, 0, le)), varType, le)]
             ELSE d)
  ELSE d

\* one node: only the fields of node.dataSet.data of a variable class change
ResolveNode(reg, node, gd, le) ==
  IF ~IsVariableClass(node.resolvedClass) THEN node
  ELSE [node EXCEPT
          !.dataSet.data =
             [i \in DOMAIN node.dataSet.data |->
                ResolveField(reg, node.dataSet.data[i], gd,
                             getVariableValueType(node.resolvedClass), le)]]

resolveVariableNodeData(reg, g, le) ==
  IF Len(g.data.value) = 0 THEN g
  ELSE [g EXCEPT !.nodes = [i \in DOMAIN g.nodes |->
                              ResolveNode(reg, g.nodes[i], g.data.value, le)]]

\* a dereference that reads the blob's first word when the offset lies
\* outside the blob.  The skip rule (C13) must reject it.
resolveConnectionTargetClamped(globalDataValue, offset, le) ==
  IF Len(globalDataValue) = 0 THEN <<>>
  ELSE IF offset + 4 > Len(globalDataValue) THEN GetUint32(globalDataValue, 0, le)
  ELSE GetUint32(globalDataValue, offset, le)

\* resolveConnectionTarget: the u32 of the blob at offset, or null (<<>>)
resolveConnectionTarget(globalDataValue, offset, le) ==
  IF Len(globalDataValue) = 0 \/ offset + 4 > Len(globalDataValue)
  THEN <<>>
  ELSE GetUint32(globalDataValue, offset, le)

\* ds.dataSets.find(ds => ds.name === hash): the first match, or <<>> for none
FindChild(dataSets, hash) ==
  LET idx == {i \in DOMAIN dataSets : dataSets[i].name = hash}
  IN  IF idx = {} THEN <<>>
      ELSE <<dataSets[CHOOSE i \in idx : \A j \in idx : i <= j]>>

\* a descriptor test without `ti < graph.nodes.length`.  Connection closure
\* (C1) must reject it.
DescriptorTargetUnchecked(cd, globalData, nodeCount, le) ==
  IF Len(cd.value) < 4 THEN -1
  ELSE LET ti == resolveConnectionTarget(globalData, Num(GetUint32(cd.value, 0, le)), le)
       IN  IF ti = <<>> THEN -1 ELSE Num(ti)

\* the node index a descriptor points at, when it passes the three tests
\* (value.length >= 4, ti !== null, ti < graph.nodes.length); else -1
DescriptorTarget(cd, globalData, nodeCount, le) ==
  IF Len(cd.value) < 4 THEN -1
  ELSE LET ti == resolveConnectionTarget(globalData, Num(GetUint32(cd.value, 0, le)), le)
       IN  IF ti = <<>> THEN -1
           ELSE IF Num(ti) < nodeCount THEN Num(ti) ELSE -1

\* a flow connection that names the pin on both ends, as the variable branch
\* does.  The flow rule (C11) must reject it.
FlowConnectionPinOnly(ni, pinDS, cd, ti) ==
  [sourceNodeIndex |-> ni, sourceOutputPinHash |-> pinDS.name,
   targetNodeIndex |-> ti, targetInputPinHash |-> pinDS.name,
   connectionType |-> "flow"]

\* a variable connection in the direction the descriptor is stored.  The
\* reversal rule (C12) must reject it.
VariableConnectionForward(ni, pinDS, cd, ti) ==
  [sourceNodeIndex |-> ni, sourceOutputPinHash |-> pinDS.name,
   targetNodeIndex |-> ti, targetInputPinHash |-> pinDS.name,
   connectionType |-> "variable"]

FlowConnection(ni, pinDS, cd, ti) ==
  [sourceNodeIndex |-> ni, sourceOutputPinHash |-> pinDS.name,
   targetNodeIndex |-> ti, targetInputPinHash |-> cd.name,
   connectionType |-> "flow"]

VariableConnection(ni, pinDS, cd, ti) ==
  [sourceNodeIndex |-> ti, sourceOutputPinHash |-> pinDS.name,
   targetNodeIndex |-> ni, targetInputPinHash |-> pinDS.name,
   connectionType |-> "variable"]

\* for (const cd of pinDS.data) ...: the connections of one pin, in order
RECURSIVE PinConnections(_, _, _, _, _, _, _)
PinConnections(kind, ni, pinDS, i, globalData, nodeCount, le) ==
  IF i > Len(pinDS.data) THEN <<>>
  ELSE LET ti == DescriptorTarget(pinDS.data[i], globalData, nodeCount, le)
       IN  (IF ti = -1 THEN <<>>
            ELSE IF kind = "flow" THEN <<FlowConnection(ni, pinDS, pinDS.data[i], ti)>>
            ELSE <<VariableConnection(ni, pinDS, pinDS.data[i], ti)>>)
           \o PinConnections(kind, ni, pinDS, i + 1, globalData, nodeCount, le)

\* for (const pinDS of outDS.dataSets) ...
RECURSIVE CategoryConnections(_, _, _, _, _, _, _)
CategoryConnections(kind, ni, pins, i, globalData, nodeCount, le) ==
  IF i > Len(pins) THEN <<>>
  ELSE PinConnections(kind, ni, pins[i], 1, globalData, nodeCount, le)
       \o CategoryConnections(kind, ni, pins, i + 1, globalData, nodeCount, le)

\* the connections of one node: those of output_pins, then of variable_pins
NodeConnections(node, ni, globalData, nodeCount, le) ==
  LET outDS == FindChild(node.dataSet.dataSets, HASH_OUTPUT_PINS)
      varDS == FindChild(node.dataSet.dataSets, HASH_VARIABLE_PINS)
  IN  (IF outDS = <<>> THEN <<>>
       ELSE CategoryConnections("flow", ni, outDS[1].dataSets, 1, globalData,
                                nodeCount, le))
      \o
      (IF varDS = <<>> THEN <<>>
       ELSE CategoryConnections("variable", ni, varDS[1].dataSets, 1, globalData,
                                nodeCount, le))

RECURSIVE ConnectionsFrom(_, _, _)
ConnectionsFrom(g, ni, le) ==
  IF ni >= Len(g.nodes) THEN <<>>
  ELSE NodeConnections(g.nodes[ni + 1], ni, g.data.value, Len(g.nodes), le)
       \o ConnectionsFrom(g, ni + 1, le)

extractConnections(g, le) == ConnectionsFrom(g, 0, le)

\* ------------------------------------------------------------------------
\* parse(): the pipeline, one action per stage
\* ------------------------------------------------------------------------

MaxDepth == 6

\* AdfReader.parseHeader
AdfParseHeader ==
  /\ pc = "new"
  /\ LET r == parseHeader(buf)
     IN  /\ pc' = IF r.ok THEN "header" ELSE "failed"
         /\ err' = r.err
         /\ header' = IF r.ok THEN r.v.header ELSE header
         /\ littleEndian' = IF InBuf(buf, 0, 4) /\ MagicEndian(GetUint32(buf, 0, TRUE)) # <<>>
                            THEN MagicEndian(GetUint32(buf, 0, TRUE))[1]
                            ELSE littleEndian
  /\ UNCHANGED <<buf, types, instances, graph, connections, regVars, layVars, vtVars>>

\* AdfReader.parseTypes
AdfParseTypes ==
  /\ pc = "header"
  /\ LET r == parseTypes(buf, littleEndian, header)
     IN  /\ pc' = IF r.ok THEN "types" ELSE "failed"
         /\ err' = r.err
         /\ types' = IF r.ok THEN r.v ELSE types
  /\ UNCHANGED <<buf, littleEndian, header, instances, graph, connections, regVars, layVars, vtVars>>

\* AdfReader.parseInstances
AdfParseInstances ==
  /\ pc = "types"
  /\ LET r == parseInstances(buf, littleEndian, header)
     IN  /\ pc' = IF r.ok THEN "instances" ELSE "failed"
         /\ err' = r.err
         /\ instances' = IF r.ok THEN r.v ELSE instances
  /\ UNCHANGED <<buf, littleEndian, header, types, graph, connections, regVars, layVars, vtVars>>

\* a parse() without `if (!inst) throw`, which decodes from offset 0 when the
\* container holds no instance.  The NoInstance rule (C10) must reject it.
GsrcParseGraphUnchecked ==
  /\ pc = "instances"
  /\ LET P == IF Len(instances) = 0 THEN 0 ELSE instances[1].payloadOffset
         r == parseGraph(KNOWN_HASHES, buf, littleEndian, P, P, MaxDepth)
     IN  /\ pc' = IF r.ok THEN "graph" ELSE "failed"
         /\ err' = r.err
         /\ graph' = IF r.ok THEN r.v ELSE graph
  /\ UNCHANGED <<buf, littleEndian, header, types, instances, connections, regVars, layVars, vtVars>>

\* GsrcParser.parse, from `const inst = this.adf.instances[0]` to parseGraph
GsrcParseGraph ==
  /\ pc = "instances"
  /\ IF Len(instances) = 0
     THEN /\ pc' = "failed"
          /\ err' = "NoInstance"
          /\ graph' = graph
     ELSE LET r == parseGraph(KNOWN_HASHES, buf, littleEndian, instances[1].payloadOffset,
                              instances[1].payloadOffset, MaxDepth)
          IN  /\ pc' = IF r.ok THEN "graph" ELSE "failed"
              /\ err' = r.err
              /\ graph' = IF r.ok THEN r.v ELSE graph
  /\ UNCHANGED <<buf, littleEndian, header, types, instances, connections, regVars, layVars, vtVars>>

\* GsrcParser.parse: resolveVariableNodeData
GsrcResolveVariables ==
  /\ pc = "graph"
  /\ graph' = resolveVariableNodeData(KNOWN_HASHES, graph, littleEndian)
  /\ pc' = "resolved"
  /\ UNCHANGED <<buf, err, littleEndian, header, types, instances, connections, regVars, layVars, vtVars>>

\* GsrcParser.parse: extractConnections and the return
GsrcExtractConnections ==
  /\ pc = "resolved"
  /\ connections' = extractConnections(graph, littleEndian)
  /\ pc' = "done"
  /\ UNCHANGED <<buf, err, littleEndian, header, types, instances, graph, regVars, layVars, vtVars>>

\* ------------------------------------------------------------------------
\* Input buffers: ADF files written field by field
\* ------------------------------------------------------------------------

Zeros(n) == [i \in 1..n |-> 0]

\* the four bytes of u32 <<hi, lo>> in the file's byte order
W32Bytes(w, le) ==
  IF le THEN <<w[2] % 256, w[2] \div 256, w[1] % 256, w[1] \div 256>>
  ELSE <<w[1] \div 256, w[1] % 256, w[2] \div 256, w[2] % 256>>

U32Bytes(n, le) == W32Bytes(ToW32(n), le)

\* a Data record (0x20 bytes): name, type, value offset, count, reference flag
DataRecord(name, type, valRel, valCount, flag, le) ==
  W32Bytes(name, le) \o W32Bytes(type, le) \o U32Bytes(valRel, le) \o Zeros(4)
  \o U32Bytes(valCount, le) \o Zeros(4) \o <<flag>> \o Zeros(7)

\* a DataSet record (0x30 bytes)
DataSetRecord(name, dataRel, dataCount, dsRel, dsCount, le) ==
  W32Bytes(name, le) \o Zeros(4) \o U32Bytes(dataRel, le) \o Zeros(4)
  \o U32Bytes(dataCount, le) \o Zeros(4) \o U32Bytes(dsRel, le) \o Zeros(4)
  \o U32Bytes(dsCount, le) \o Zeros(12)

\* a Node record (0x40 bytes): class, function, inline root DataSet
NodeRecord(class, function, rootName, dataRel, dataCount, dsRel, dsCount, le) ==
  W32Bytes(class, le) \o Zeros(4) \o W32Bytes(function, le) \o Zeros(4)
  \o DataSetRecord(rootName, dataRel, dataCount, dsRel, dsCount, le)

\* the kinds of connection descriptor a pin can carry
\*   "none"   the pin has no Data record
\*   "n0"     value = blob offset 0, where the blob holds node index 0
\*   "n1"     value = blob offset 4, where the blob holds node index 1
\*   "far"    value = blob offset 8, where the blob holds index 9 (no such node)
\*   "oob"    value = blob offset 14, so the 4 bytes end past the blob
\*   "short"  a value of 2 bytes
\*   "zeroRel" a record with value offset 0 and count 4
PinKinds == {"none", "n0", "n1", "far", "oob", "short", "zeroRel"}

\* the classes a node can have (field cls of a node description)
\*   "plain"  a class hash no string is registered for, no fields
\*   "var"    class VariableInt, with a Name field and a referenced Value
\*            field whose values are the node's two pin values
\*   "loop"   plain, and the root DataSet's one child offset is the offset
\*            of the root DataSet itself
\*   "loopUp" plain, and the one child offset of the output_pins DataSet is
\*            the offset of the root DataSet

PinOffset(kind) ==
  IF kind = "n0" THEN 0 ELSE IF kind = "n1" THEN 4 ELSE IF kind = "far" THEN 8 ELSE 14

BlobBytes(le) ==
  U32Bytes(0, le) \o U32Bytes(1, le) \o U32Bytes(9, le) \o U32Bytes(2, le)

\* payload-relative offsets, for n nodes
NodeAreaSize == 5 * 64
NodesRel == 16 + 32
NodeArea(n, i) == NodesRel + 64 * n + NodeAreaSize * i
ValuesRel(n) == NodesRel + 64 * n + NodeAreaSize * n
RootSetRel(i) == NodesRel + 64 * i + 16
BlobRel(n) == ValuesRel(n) + 8 * n
PayloadSize(n) == BlobRel(n) + 16

PinDataCount(kind) == IF kind = "none" THEN 0 ELSE 1
PinValCount(kind) == IF kind = "short" THEN 2 ELSE 4

\* the area of node i: the two pin categories, one pin in each, one Data
\* record in each pin, then the node's own two fields
NodeAreaBytes(n, i, nd, le) ==
  DataSetRecord(HASH_OUTPUT_PINS, 0, 0,
                IF nd.cls = "loopUp" THEN RootSetRel(i) ELSE NodeArea(n, i) + 96, 1, le)
  \o DataSetRecord(HASH_VARIABLE_PINS, 0, 0, NodeArea(n, i) + 144, 1, le)
  \o DataSetRecord(hashString(<<100, 111, 110, 101>>), NodeArea(n, i) + 192,
                   PinDataCount(nd.out), 0, 0, le)
  \o DataSetRecord(hashString(<<105, 110>>), NodeArea(n, i) + 224,
                   PinDataCount(nd.var), 0, 0, le)
  \o DataRecord(<<0, 257 + i>>, <<0, 0>>,
                IF nd.out = "zeroRel" THEN 0 ELSE ValuesRel(n) + 8 * i,
                PinValCount(nd.out), 0, le)
  \o DataRecord(<<0, 513 + i>>, <<0, 0>>,
                IF nd.var = "zeroRel" THEN 0 ELSE ValuesRel(n) + 8 * i + 4,
                PinValCount(nd.var), 1, le)
  \o DataRecord(hashString(StrName), <<0, 0>>, ValuesRel(n) + 8 * i, 4, 0, le)
  \o DataRecord(hashString(StrValue), <<0, 0>>, ValuesRel(n) + 8 * i + 4, 4, 1, le)

RECURSIVE NodeRecords(_, _, _)
NodeRecords(nodes, i, le) ==
  IF i >= Len(nodes) THEN <<>>
  ELSE NodeRecord(IF nodes[i + 1].cls = "var" THEN hashString(Cls_VariableInt)
                  ELSE <<0, 4097 + i>>,
                  <<0, 8193 + i>>, <<0, 1>>,
                  NodeArea(Len(nodes), i) + 256,
                  IF nodes[i + 1].cls = "var" THEN 2 ELSE 0,
                  IF nodes[i + 1].cls = "loop" THEN RootSetRel(i)
                  ELSE NodeArea(Len(nodes), i),
                  IF nodes[i + 1].cls = "loop" THEN 1 ELSE 2, le)
       \o NodeRecords(nodes, i + 1, le)

RECURSIVE NodeAreas(_, _, _)
NodeAreas(nodes, i, le) ==
  IF i >= Len(nodes) THEN <<>>
  ELSE NodeAreaBytes(Len(nodes), i, nodes[i + 1], le) \o NodeAreas(nodes, i + 1, le)

RECURSIVE NodeValues(_, _, _)
NodeValues(nodes, i, le) ==
  IF i >= Len(nodes) THEN <<>>
  ELSE U32Bytes(PinOffset(nodes[i + 1].out), le)
       \o U32Bytes(PinOffset(nodes[i + 1].var), le)
       \o NodeValues(nodes, i + 1, le)

\* the payload: Graph record, node records, node areas, values, blob
PayloadBytes(nodes, le) ==
  U32Bytes(NodesRel, le) \o Zeros(4) \o U32Bytes(Len(nodes), le) \o Zeros(4)
  \o DataRecord(<<0, 2>>, <<0, 0>>, BlobRel(Len(nodes)), 16, 0, le)
  \o NodeRecords(nodes, 0, le) \o NodeAreas(nodes, 0, le)
  \o NodeValues(nodes, 0, le) \o BlobBytes(le)

\* sizes of the container parts
HeaderSize(version) == IF version = 2 THEN 24 ELSE IF version = 3 THEN 32 ELSE 68
TypeBlockSize == 32 + 32 + 4
InstanceEntrySize(version) == IF version >= 4 THEN 24 ELSE 48
StringTableSize(version) == IF version >= 4 THEN 4 ELSE 0

TypesAt(sc) == HeaderSize(sc.version)
InstancesAt(sc) == TypesAt(sc) + TypeBlockSize * sc.typeCount
StringsAt(sc) == InstancesAt(sc) + InstanceEntrySize(sc.version) * sc.instanceCount
PayloadAt(sc) == StringsAt(sc) + StringTableSize(sc.version)

MagicBytes(sc) ==
  IF sc.magic = "bad" THEN <<65, 68, 70, 33>>
  ELSE IF sc.le THEN <<32, 70, 68, 65>>
  ELSE <<65, 68, 70, 32>>

HeaderBytes(sc) ==
  MagicBytes(sc) \o U32Bytes(sc.version, sc.le)
  \o U32Bytes(sc.instanceCount, sc.le) \o U32Bytes(InstancesAt(sc), sc.le)
  \o U32Bytes(sc.typeCount, sc.le) \o U32Bytes(TypesAt(sc), sc.le)
  \o (IF sc.version = 2 THEN <<>>
      ELSE U32Bytes(0, sc.le) \o U32Bytes(0, sc.le))
  \o (IF sc.version \in {2, 3} THEN <<>>
      ELSE U32Bytes(1, sc.le) \o U32Bytes(StringsAt(sc), sc.le)
           \o U32Bytes(PayloadAt(sc) + PayloadSize(Len(sc.nodes)), sc.le)
           \o Zeros(20) \o <<103, 115, 0, 0>>)

\* one type: an Array (kind 3) with one member, its name "T" at offset 64
TypeBytes(sc) ==
  U32Bytes(3, sc.le) \o U32Bytes(8, sc.le) \o U32Bytes(4, sc.le)
  \o W32Bytes(<<0, 7>>, sc.le) \o U32Bytes(64, sc.le) \o U32Bytes(0, sc.le)
  \o U32Bytes(1, sc.le) \o U32Bytes(32, sc.le)
  \o W32Bytes(<<0, 8>>, sc.le) \o W32Bytes(<<0, 9>>, sc.le)
  \o W32Bytes(<<256, 4>>, sc.le) \o U32Bytes(4, sc.le) \o U32Bytes(0, sc.le)
  \o U32Bytes(0, sc.le) \o U32Bytes(0, sc.le) \o U32Bytes(0, sc.le)
  \o <<84, 0, 0, 0>>

InstanceBytes(sc) ==
  W32Bytes(<<0, 5>>, sc.le) \o W32Bytes(<<0, 6>>, sc.le)
  \o U32Bytes(PayloadAt(sc), sc.le) \o U32Bytes(PayloadSize(Len(sc.nodes)), sc.le)
  \o U32Bytes(0, sc.le) \o Zeros(InstanceEntrySize(sc.version) - 20)

RECURSIVE Repeat(_, _)
Repeat(bytes, k) == IF k = 0 THEN <<>> ELSE bytes \o Repeat(bytes, k - 1)

\* the whole file of scenario sc
FileBytes(sc) ==
  HeaderBytes(sc) \o Repeat(TypeBytes(sc), sc.typeCount)
  \o Repeat(InstanceBytes(sc), sc.instanceCount)
  \o (IF sc.version >= 4 THEN <<103, 0, 0, 0>> ELSE <<>>)
  \o PayloadBytes(sc.nodes, sc.le)

MaxGraphNodes == 2

\* the node descriptions of the graph family: every pin kind occurs under
\* output_pins and under variable_pins
NodeKinds ==
  {[out |-> "n0", var |-> "none", cls |-> "plain"],
   [out |-> "n1", var |-> "n0", cls |-> "plain"],
   [out |-> "far", var |-> "n1", cls |-> "plain"],
   [out |-> "oob", var |-> "far", cls |-> "plain"],
   [out |-> "short", var |-> "oob", cls |-> "plain"],
   [out |-> "zeroRel", var |-> "short", cls |-> "plain"],
   [out |-> "none", var |-> "zeroRel", cls |-> "plain"],
   [out |-> "n1", var |-> "n0", cls |-> "var"],
   [out |-> "n0", var |-> "oob", cls |-> "var"]}

\* containers that differ in magic, byte order, version and directory sizes
HeaderScenarios ==
  [le : BOOLEAN, magic : {"ok", "bad"}, version : 1..5, instanceCount : 0..2,
   typeCount : 0..1, nodes : {<<[out |-> "n0", var |-> "none", cls |-> "plain"]>>}]

\* well-formed containers that differ in the graph they hold
GraphScenarios ==
  [le : BOOLEAN, magic : {"ok"}, version : {2, 4}, instanceCount : {1},
   typeCount : {0}, nodes : SeqsUpTo(NodeKinds, MaxGraphNodes)]

\* containers whose last node has a DataSet that is its own child or its
\* own grandchild
LoopScenarios ==
  [le : BOOLEAN, magic : {"ok"}, version : {2, 4}, instanceCount : {1},
   typeCount : {0},
   nodes : {front \o <<[out |-> "n0", var |-> "none", cls |-> c]>> :
              front \in SeqsUpTo({[out |-> "n1", var |-> "n0", cls |-> "plain"]},
                                 MaxGraphNodes - 1),
              c \in {"loop", "loopUp"}}]

\* containers of which every prefix is an input
TruncatedScenarios ==
  [le : BOOLEAN, magic : {"ok"}, version : {2, 4}, instanceCount : {1},
   typeCount : {1}, nodes : {<<>>, <<[out |-> "n1", var |-> "n0", cls |-> "plain"]>>}]

\* the curated strings the parser's claims need, loaded as at module load
ParserStrings ==
  <<<<111, 117, 116, 112, 117, 116, 95, 112, 105, 110, 115>>,                \* output_pins
    <<118, 97, 114, 105, 97, 98, 108, 101, 95, 112, 105, 110, 115>>,         \* variable_pins
    StrName,
    StrValue,
    Cls_VariableInt,
    <<100, 111, 110, 101>>,                                                  \* done
    <<105, 110>> >>                                                          \* in

RECURSIVE LoadedRegistry(_, _)
LoadedRegistry(list, i) ==
  IF i = 0 THEN <<>> ELSE RegisterInto(LoadedRegistry(list, i - 1), list[i])

LoadedHashes ==
  /\ KNOWN_STRINGS = ParserStrings
  /\ HASHC_STRINGS = <<>>
  /\ KNOWN_HASHES = LoadedRegistry(ParserStrings, Len(ParserStrings))
  /\ regIdx = Len(ParserStrings)
  /\ regCalls = 0
  /\ regLog = [i \in 1..Len(ParserStrings) |-> [s |-> ParserStrings[i], stored |-> TRUE]]
  /\ regPrev = LoadedRegistry(ParserStrings, Len(ParserStrings) - 1)

FreshParser ==
  /\ pc = "new"
  /\ err = "none"
  /\ littleEndian = TRUE
  /\ header = <<>>
  /\ types = <<>>
  /\ instances = <<>>
  /\ graph = <<>>
  /\ connections = <<>>

InitParser ==
  /\ LoadedHashes
  /\ FreshParser
  /\ IdleLayout
  /\ IdleValueType
  /\ \/ \E sc \in HeaderScenarios \cup GraphScenarios \cup LoopScenarios :
          buf = FileBytes(sc)
     \/ \E sc \in TruncatedScenarios :
          \E keep \in 0..Len(FileBytes(sc)) : buf = SubSeq(FileBytes(sc), 1, keep)

\* ---- getVariableValueType as a call of its own ----

MaxSuffix == 1

\* the characters a class name can continue with after a table prefix
RECURSIVE Suffixes(_)
Suffixes(k) == IF k = 0 THEN {<<>>} ELSE Suffixes(k - 1) \cup {<<88>> \o x : x \in Suffixes(k - 1)}

\* the class names of the table, two names outside it, each with the leading
\* words External and Global and with up to MaxSuffix further characters
ClassNames ==
  {pre \o base \o suf :
     pre \in {<<>>, Cls_External, Cls_Global, Cls_External \o Cls_Global},
     base \in {Cls_Variable, Cls_VariableFloat, Cls_VariableInt, Cls_VariableBool,
               Cls_VariableUint32, Cls_VariableUint64, Cls_VariableString,
               Cls_VariableStringHash, Cls_VariableVector, Cls_VariableHash,
               Cls_VariableEnum, Cls_VariableTransform, Cls_VariableEventSend,
               Cls_VariableEventReceive, Cls_VariableObject, Cls_VariableFile,
               Cls_VariableGraphFile, Cls_VariableGlobalRef, <<78, 111, 100, 101>>},
     suf \in Suffixes(MaxSuffix)}

GetVariableValueType ==
  /\ ~vtDone
  /\ vtType' = getVariableValueType(vtClass)
  /\ vtDone' = TRUE
  /\ UNCHANGED <<vtClass, regVars, parseVars, layVars>>

InitValueType ==
  /\ LoadedHashes
  /\ IdleParser
  /\ IdleLayout
  /\ vtClass \in ClassNames
  /\ vtDone = FALSE
  /\ vtType = ""

NextValueType == GetVariableValueType

SpecValueType == InitValueType /\ [][NextValueType]_vars

NextParser ==
  \/ AdfParseHeader
  \/ AdfParseTypes
  \/ AdfParseInstances
  \/ GsrcParseGraph
  \/ GsrcResolveVariables
  \/ GsrcExtractConnections

SpecParser == InitParser /\ [][NextParser]_vars

\* ------------------------------------------------------------------------
\* layoutNodes (utils/gsrc-to-flow.ts, the revision with compaction and
\* layer split)
\* ------------------------------------------------------------------------

LAYER_GAP_X == 360
LAYER_GAP_Y == 140
NODE_W == 300
MAX_PER_LAYER == 4
VAR_CELL_W == 240
VAR_CELL_H == 100
VAR_COLS == 6
VAR_ZONE_GAP == 160
SWEEP_PASSES == 8

Max2(x, y) == IF x >= y THEN x ELSE y

\* the smallest / largest element of a non-empty set of integers
MinOf(S) == CHOOSE x \in S : \A y \in S : x <= y
MaxOf(S) == CHOOSE x \in S : \A y \in S : x >= y

\* [...set].sort((a, b) => a - b)
RECURSIVE Ascending(_)
Ascending(S) == IF S = {} THEN <<>> ELSE <<MinOf(S)>> \o Ascending(S \ {MinOf(S)})

SeqRange(q) == {q[i] : i \in DOMAIN q}

\* connections.filter(c => c.connectionType === kind)
RECURSIVE FilterType(_, _)
FilterType(cs, kind) ==
  IF cs = <<>> THEN <<>>
  ELSE (IF Head(cs).connectionType = kind THEN <<Head(cs)>> ELSE <<>>)
       \o FilterType(Tail(cs), kind)

\* children[i]: the targets of the flow edges out of i, in edge order
RECURSIVE ChildList(_, _)
ChildList(flows, i) ==
  IF flows = <<>> THEN <<>>
  ELSE (IF Head(flows).sourceNodeIndex = i THEN <<Head(flows).targetNodeIndex>> ELSE <<>>)
       \o ChildList(Tail(flows), i)

\* parents[i]: the sources of the flow edges into i, in edge order
RECURSIVE ParentList(_, _)
ParentList(flows, i) ==
  IF flows = <<>> THEN <<>>
  ELSE (IF Head(flows).targetNodeIndex = i THEN <<Head(flows).sourceNodeIndex>> ELSE <<>>)
       \o ParentList(Tail(flows), i)

\* varNodes: the sources of the variable edges
VarNodeSet(cs) == {c.sourceNodeIndex : c \in SeqRange(FilterType(cs, "variable"))}

\* a funcNodes loop that starts at index 1.  The idle final loop (C29) must
\* reject it.
FuncNodeSetFromOne(n, cs) == (1..(n - 1)) \ VarNodeSet(cs)

\* funcNodes: every node that is not a variable source
FuncNodeSet(n, cs) == (0..(n - 1)) \ VarNodeSet(cs)

\* the number of entries of list q that are in set S
RECURSIVE CountIn(_, _)
CountIn(q, S) ==
  IF q = <<>> THEN 0 ELSE (IF Head(q) \in S THEN 1 ELSE 0) + CountIn(Tail(q), S)

\* the graph as the layout sees it
LayoutGraph(n, cs) ==
  [n        |-> n,
   children |-> [i \in 0..(n - 1) |-> ChildList(FilterType(cs, "flow"), i)],
   parents  |-> [i \in 0..(n - 1) |-> ParentList(FilterType(cs, "flow"), i)],
   varNodes |-> VarNodeSet(cs),
   func     |-> FuncNodeSet(n, cs)]

\* funcInDeg, and the queue seeded with the functional nodes of in-degree 0
KahnStart(g) ==
  [deg   |-> [i \in 0..(g.n - 1) |->
                IF i \in g.func THEN CountIn(g.parents[i], g.func) ELSE 0],
   layer |-> [i \in 0..(g.n - 1) |-> 0],
   queue |-> Ascending({i \in g.func : CountIn(g.parents[i], g.func) = 0})]

\* a visit that queues the child without raising its layer.  The no-op
\* compaction (C28) must reject it.
KahnVisitNoLayer(st, cur, child) ==
  [deg   |-> [st.deg EXCEPT ![child] = @ - 1],
   layer |-> st.layer,
   queue |-> IF st.deg[child] - 1 = 0 THEN Append(st.queue, child) ELSE st.queue]

\* one iteration of `for (const child of children[cur])`
KahnVisit(st, cur, child) ==
  [deg   |-> [st.deg EXCEPT ![child] = @ - 1],
   layer |-> [st.layer EXCEPT ![child] = Max2(@, st.layer[cur] + 1)],
   queue |-> IF st.deg[child] - 1 = 0 THEN Append(st.queue, child) ELSE st.queue]

RECURSIVE KahnChildren(_, _, _, _, _)
KahnChildren(st, g, cur, kids, k) ==
  IF k > Len(kids) THEN st
  ELSE IF kids[k] \notin g.func THEN KahnChildren(st, g, cur, kids, k + 1)
  ELSE KahnChildren(KahnVisit(st, cur, kids[k]), g, cur, kids, k + 1)

\* while (head < queue.length)
RECURSIVE KahnLoop(_, _, _)
KahnLoop(st, g, head) ==
  IF head >= Len(st.queue) THEN st
  ELSE KahnLoop(KahnChildren(st, g, st.queue[head + 1], g.children[st.queue[head + 1]], 1),
                g, head + 1)

\* a minLayer without the step past the parent.  The chain rule (C15) must
\* reject it.
RECURSIVE MinLayerNoStep(_, _, _, _)
MinLayerNoStep(layer, g, ps, k) ==
  IF k > Len(ps) THEN 0
  ELSE Max2(IF ps[k] \in g.func THEN layer[ps[k]] ELSE 0, MinLayerNoStep(layer, g, ps, k + 1))

\* minLayer of node n: max over its functional parents of layer[p] + 1, or 0
RECURSIVE MinLayer(_, _, _, _)
MinLayer(layer, g, ps, k) ==
  IF k > Len(ps) THEN 0
  ELSE Max2(IF ps[k] \in g.func THEN layer[ps[k]] + 1 ELSE 0, MinLayer(layer, g, ps, k + 1))

\* for (const n of queue) layer[n] = minLayer
RECURSIVE Compact(_, _, _, _)
Compact(layer, g, queue, k) ==
  IF k > Len(queue) THEN layer
  ELSE Compact([layer EXCEPT ![queue[k]] = MinLayer(layer, g, g.parents[queue[k]], 1)],
               g, queue, k + 1)

\* layerGroups: each layer that holds a functional node, with its nodes in
\* ascending index order (the order funcNodes is iterated in)
GroupByLayer(layer, g) ==
  [l \in {layer[i] : i \in g.func} |-> Ascending({i \in g.func : layer[i] = l})]

\* maxLayer after grouping
MaxLayerOf(layer, g) == IF g.func = {} THEN 0 ELSE MaxOf({layer[i] : i \in g.func})

\* a chunking that keeps the layer whole.  The layer bound (C17) must reject
\* it.
ChunksWhole(nodes) == IF Len(nodes) = 0 THEN <<>> ELSE <<nodes>>

\* chunks: nodes.slice(i, i + MAX_PER_LAYER) for i = 0, MAX_PER_LAYER, ...
RECURSIVE Chunks(_)
Chunks(nodes) ==
  IF Len(nodes) = 0 THEN <<>>
  ELSE IF Len(nodes) <= MAX_PER_LAYER THEN <<nodes>>
  ELSE <<SubSeq(nodes, 1, MAX_PER_LAYER)>>
       \o Chunks(SubSeq(nodes, MAX_PER_LAYER + 1, Len(nodes)))

\* a split that shifts no layer.  The order of the layers (C24) must reject
\* it.
ShiftedKeyInPlace(gl, l, k) == gl

\* the layer a group key maps to when layer l is split into k chunks
\* (gl > l moves right by k - 1)
ShiftedKey(gl, l, k) == IF gl > l THEN gl + (k - 1) ELSE gl

\* newGroups for the split of layer l into chunks ch
SplitGroups(groups, l, ch) ==
  [x \in {ShiftedKey(gl, l, Len(ch)) : gl \in (DOMAIN groups) \ {l}}
         \cup {l + ci : ci \in 0..(Len(ch) - 1)} |->
     IF x >= l /\ x < l + Len(ch) THEN ch[x - l + 1]
     ELSE IF x > l THEN groups[x - (Len(ch) - 1)]
     ELSE groups[x]]

\* layer[] after the split of layer l: every node takes the key of its group
LayerFromGroups(layer, groups) ==
  [i \in DOMAIN layer |->
     IF \E x \in DOMAIN groups : i \in SeqRange(groups[x])
     THEN CHOOSE x \in DOMAIN groups : i \in SeqRange(groups[x])
     ELSE layer[i]]

\* a loop body that splits no layer.  The five-children case (C16) must
\* reject it.
SplitOneNever(sp, l) == sp

\* one iteration of `for (const l of sortedLayers)` on
\* sp = [groups, layer, maxLayer]
SplitOne(sp, l) ==
  IF Len(sp.groups[l]) <= MAX_PER_LAYER THEN sp
  ELSE [groups   |-> SplitGroups(sp.groups, l, Chunks(sp.groups[l])),
        layer    |-> LayerFromGroups(sp.layer,
                                     SplitGroups(sp.groups, l, Chunks(sp.groups[l]))),
        maxLayer |-> sp.maxLayer + (Len(Chunks(sp.groups[l])) - 1)]

\* sortedLayers is taken once, before the loop, in descending order
RECURSIVE SplitLoop(_, _)
SplitLoop(sp, todo) ==
  IF todo = {} THEN sp
  ELSE SplitLoop(SplitOne(sp, MaxOf(todo)), todo \ {MaxOf(todo)})

SplitLayers(layer, g) ==
  SplitLoop([groups |-> GroupByLayer(layer, g), layer |-> layer,
             maxLayer |-> MaxLayerOf(layer, g)],
            DOMAIN GroupByLayer(layer, g))

\* a barycenter is the fraction <<sum, count>>; a - b < 0 for fractions
BaryLess(x, y) == x[1] * y[2] < y[1] * x[2]

\* sum and count of nodeOrder over the functional entries of adj
RECURSIVE BarySum(_, _, _, _)
BarySum(adj, k, order, func) ==
  IF k > Len(adj) THEN <<0, 0>>
  ELSE IF adj[k] \in func
       THEN <<(IF adj[k] \in DOMAIN order THEN order[adj[k]] ELSE 0)
                + BarySum(adj, k + 1, order, func)[1],
              1 + BarySum(adj, k + 1, order, func)[2]>>
       ELSE BarySum(adj, k + 1, order, func)

\* bary.set(n, count > 0 ? sum / count : nodeOrder.get(n) ?? 0)
Bary(n, adj, order, func) ==
  IF BarySum(adj, 1, order, func)[2] > 0 THEN BarySum(adj, 1, order, func)
  ELSE <<(IF n \in DOMAIN order THEN order[n] ELSE 0), 1>>

\* a sort that is not stable: from the second call on, x goes before the
\* entries of equal key.  Run-to-run determinism (C18) must reject it.
RECURSIVE InsertByKeyTiesByRun(_, _, _)
InsertByKeyTiesByRun(sorted, x, key) ==
  IF sorted = <<>> THEN <<x>>
  ELSE IF BaryLess(key[x], key[Head(sorted)]) THEN <<x>> \o sorted
  ELSE IF laidOut /\ ~BaryLess(key[Head(sorted)], key[x]) THEN <<x>> \o sorted
  ELSE <<Head(sorted)>> \o InsertByKeyTiesByRun(Tail(sorted), x, key)

\* Array.prototype.sort is stable: x goes after every entry not greater
RECURSIVE InsertByKey(_, _, _)
InsertByKey(sorted, x, key) ==
  IF sorted = <<>> THEN <<x>>
  ELSE IF BaryLess(key[x], key[Head(sorted)]) THEN <<x>> \o sorted
  ELSE <<Head(sorted)>> \o InsertByKey(Tail(sorted), x, key)

RECURSIVE StableSort(_, _, _)
StableSort(nodes, k, key) ==
  IF k = 0 THEN <<>>
  ELSE InsertByKey(StableSort(nodes, k - 1, key), nodes[k], key)

\* nodes.forEach((n, i) => nodeOrder.set(n, i))
SetOrder(order, nodes) ==
  [x \in (DOMAIN order) \cup SeqRange(nodes) |->
     IF x \in SeqRange(nodes) THEN (CHOOSE i \in DOMAIN nodes : nodes[i] = x) - 1
     ELSE order[x]]

\* the initial nodeOrder: rank by ascending index within each layer
RECURSIVE InitialOrder(_, _, _)
InitialOrder(order, groups, todo) ==
  IF todo = {} THEN order
  ELSE InitialOrder(SetOrder(order, groups[MinOf(todo)]), groups, todo \ {MinOf(todo)})

\* one layer of a sweep on bs = [groups, order]
SweepLayer(bs, g, l, forward) ==
  IF l \notin DOMAIN bs.groups \/ Len(bs.groups[l]) <= 1 THEN bs
  ELSE LET sorted == StableSort(bs.groups[l], Len(bs.groups[l]),
                       [x \in SeqRange(bs.groups[l]) |->
                          Bary(x, IF forward THEN g.parents[x] ELSE g.children[x],
                               bs.order, g.func)])
       IN  [groups |-> [bs.groups EXCEPT ![l] = sorted],
            order  |-> SetOrder(bs.order, sorted)]

\* for (l = 1; l <= maxLayer; l++) / for (l = maxLayer - 1; l >= 0; l--)
RECURSIVE SweepFrom(_, _, _, _, _)
SweepFrom(bs, g, l, maxLayer, forward) ==
  IF forward
  THEN (IF l > maxLayer THEN bs
        ELSE IF l \notin DOMAIN bs.groups \/ Len(bs.groups[l]) <= 1
             THEN SweepFrom(bs, g, l + 1, maxLayer, TRUE)
        ELSE SweepFrom(SweepLayer(bs, g, l, TRUE), g, l + 1, maxLayer, TRUE))
  ELSE (IF l < 0 THEN bs
        ELSE IF l \notin DOMAIN bs.groups \/ Len(bs.groups[l]) <= 1
             THEN SweepFrom(bs, g, l - 1, maxLayer, FALSE)
        ELSE SweepFrom(SweepLayer(bs, g, l, FALSE), g, l - 1, maxLayer, FALSE))

\* for (let pass = 0; pass < 8; pass++)
RECURSIVE Sweeps(_, _, _, _)
Sweeps(bs, g, maxLayer, pass) ==
  IF pass >= SWEEP_PASSES THEN bs
  ELSE Sweeps(SweepFrom(bs, g, IF pass % 2 = 0 THEN 1 ELSE maxLayer - 1, maxLayer,
                        pass % 2 = 0),
              g, maxLayer, pass + 1)

Barycenter(sp, g) ==
  Sweeps([groups |-> sp.groups,
          order  |-> InitialOrder(<<>>, sp.groups, DOMAIN sp.groups)],
         g, sp.maxLayer, 0)

\* a placement that ignores the rank.  Distinct positions (C27) must reject
\* it.
FuncPositionsOneRow(bs) ==
  [x \in UNION {SeqRange(bs.groups[l]) : l \in DOMAIN bs.groups} |->
     LET l == CHOOSE k \in DOMAIN bs.groups : x \in SeqRange(bs.groups[k])
     IN  [x |-> l * LAYER_GAP_X,
          y |-> 0 - (Len(bs.groups[l]) * LAYER_GAP_Y) \div 2]]

\* the position of a functional node: its layer's x, its rank's y
\* (the last sort by nodeOrder leaves each group as the sweeps left it)
FuncPositions(bs) ==
  [x \in UNION {SeqRange(bs.groups[l]) : l \in DOMAIN bs.groups} |->
     LET l == CHOOSE k \in DOMAIN bs.groups : x \in SeqRange(bs.groups[k])
         i == (CHOOSE k \in DOMAIN bs.groups[l] : bs.groups[l][k] = x) - 1
     IN  [x |-> l * LAYER_GAP_X,
          y |-> (0 - (Len(bs.groups[l]) * LAYER_GAP_Y) \div 2) + i * LAYER_GAP_Y]]

GlobalBottomY(pos) == IF DOMAIN pos = {} THEN 0 ELSE MaxOf({pos[k].y : k \in DOMAIN pos})
GlobalMinX(pos) == IF DOMAIN pos = {} THEN 0 ELSE MinOf({pos[k].x : k \in DOMAIN pos})

\* the variable sources in the order the edges name them first
RECURSIVE FirstSeen(_, _)
FirstSeen(cs, seen) ==
  IF cs = <<>> THEN <<>>
  ELSE IF Head(cs).connectionType = "variable" /\ Head(cs).sourceNodeIndex \notin seen
       THEN <<Head(cs).sourceNodeIndex>>
            \o FirstSeen(Tail(cs), seen \cup {Head(cs).sourceNodeIndex})
       ELSE FirstSeen(Tail(cs), seen)

\* an allVarNodes without the sort by index.  Independence of the edge
\* order (C26) must reject it.
AllVarNodesByEdge(g, cs) == FirstSeen(cs, {})

\* allVarNodes: the connected variable nodes by index, then the others
AllVarNodes(g, cs) ==
  Ascending(VarNodeSet(cs)) \o Ascending(g.varNodes \ VarNodeSet(cs))

\* a grid of one row only.  The grid rule (C23) must reject it.
VarPositionsOneRow(pos, all) ==
  [x \in (DOMAIN pos) \cup SeqRange(all) |->
     IF x \in SeqRange(all)
     THEN LET i == (MaxOf({k \in DOMAIN all : all[k] = x})) - 1
          IN  [x |-> GlobalMinX(pos) + i * VAR_CELL_W,
               y |-> GlobalBottomY(pos) + VAR_ZONE_GAP]
     ELSE pos[x]]

\* positions.set(allVarNodes[i], ...) for every i, over the functional positions
VarPositions(pos, all) ==
  [x \in (DOMAIN pos) \cup SeqRange(all) |->
     IF x \in SeqRange(all)
     THEN LET i == (MaxOf({k \in DOMAIN all : all[k] = x})) - 1
          IN  [x |-> GlobalMinX(pos) + (i % VAR_COLS) * VAR_CELL_W,
               y |-> GlobalBottomY(pos) + VAR_ZONE_GAP + (i \div VAR_COLS) * VAR_CELL_H]
     ELSE pos[x]]

\* remainingBaseY
RemainingBaseY(funcPos, all) ==
  IF Len(all) > 0
  THEN GlobalBottomY(funcPos) + VAR_ZONE_GAP
       + (((Len(all) - 1) \div VAR_COLS) + 1) * VAR_CELL_H + VAR_ZONE_GAP
  ELSE GlobalBottomY(funcPos) + VAR_ZONE_GAP + VAR_ZONE_GAP

\* the nodes 0..n-1 still without a position, in index order
Remaining(n, pos) == Ascending((0..(n - 1)) \ DOMAIN pos)

\* a final loop that runs to i <= nodeCount, and so places index n as well.
\* Layout totality (C2) must reject it.
RemainingPositionsOneMore(n, pos, funcPos, all) ==
  [x \in (DOMAIN pos) \cup (0..n) |->
     IF x \in DOMAIN pos THEN pos[x]
     ELSE [x |-> GlobalMinX(funcPos), y |-> RemainingBaseY(funcPos, all)]]

\* the final loop: every unpositioned node gets the next column of one row
RemainingPositions(n, pos, funcPos, all) ==
  [x \in (DOMAIN pos) \cup (0..(n - 1)) |->
     IF x \in DOMAIN pos THEN pos[x]
     ELSE [x |-> GlobalMinX(funcPos)
                 + ((CHOOSE k \in DOMAIN Remaining(n, pos) : Remaining(n, pos)[k] = x) - 1)
                   * NODE_W,
           y |-> RemainingBaseY(funcPos, all)]]

\* everything layoutNodes computes, stage by stage
LayoutFromSweeps(g, cs, kahn, compacted, sp, bs) ==
  [queue        |-> kahn.queue,
   layerKahn    |-> kahn.layer,
   layerCompact |-> compacted,
   groupsBefore |-> GroupByLayer(compacted, g),
   layer        |-> sp.layer,
   groups       |-> bs.groups,
   maxLayer     |-> sp.maxLayer,
   nodeOrder    |-> bs.order,
   funcPos      |-> FuncPositions(bs),
   gridPos      |-> VarPositions(FuncPositions(bs), AllVarNodes(g, cs)),
   positions    |-> RemainingPositions(g.n,
                      VarPositions(FuncPositions(bs), AllVarNodes(g, cs)),
                      FuncPositions(bs), AllVarNodes(g, cs))]

LayoutFromSplit(g, cs, kahn, compacted, sp) ==
  LayoutFromSweeps(g, cs, kahn, compacted, sp, Barycenter(sp, g))

LayoutFromCompact(g, cs, kahn, compacted) ==
  LayoutFromSplit(g, cs, kahn, compacted, SplitLayers(compacted, g))

LayoutFromKahn(g, cs, kahn) ==
  LayoutFromCompact(g, cs, kahn, Compact(kahn.layer, g, kahn.queue, 1))

LayoutOf(g, cs) == LayoutFromKahn(g, cs, KahnLoop(KahnStart(g), g, 0))

layoutNodes(n, cs) == LayoutOf(LayoutGraph(n, cs), cs)

\* ------------------------------------------------------------------------
\* layoutNodes (src/utils/gsrc-to-flow.ts, the revision that places each
\* variable node under its targets).  Its x coordinates can be fractions
\* (an average of target columns), so every x of this revision is a reduced
\* fraction <<numerator, denominator>>.
\* ------------------------------------------------------------------------

LAYER_GAP_Y_V1 == 200
SWEEP_PASSES_V1 == 4
VAR_STAGGER_V1 == 30

RECURSIVE Gcd(_, _)
Gcd(x, y) == IF y = 0 THEN x ELSE Gcd(y, x % y)

Abs(x) == IF x < 0 THEN 0 - x ELSE x

\* the fraction num / den (den > 0) in lowest terms
Frac(num, den) ==
  IF num = 0 THEN <<0, 1>>
  ELSE <<num \div Gcd(Abs(num), den), den \div Gcd(Abs(num), den)>>

FracAdd(p, q) == Frac(p[1] * q[2] + q[1] * p[2], p[2] * q[2])

\* sum and count over the functional entries of adj that sit in targetLayer
RECURSIVE BarySumV1(_, _, _, _, _, _)
BarySumV1(adj, k, order, func, layer, targetLayer) ==
  IF k > Len(adj) THEN <<0, 0>>
  ELSE IF adj[k] \in func /\ layer[adj[k]] = targetLayer
       THEN <<(IF adj[k] \in DOMAIN order THEN order[adj[k]] ELSE 0)
                + BarySumV1(adj, k + 1, order, func, layer, targetLayer)[1],
              1 + BarySumV1(adj, k + 1, order, func, layer, targetLayer)[2]>>
       ELSE BarySumV1(adj, k + 1, order, func, layer, targetLayer)

BaryV1(n, adj, order, func, layer, targetLayer) ==
  IF BarySumV1(adj, 1, order, func, layer, targetLayer)[2] > 0
  THEN BarySumV1(adj, 1, order, func, layer, targetLayer)
  ELSE <<(IF n \in DOMAIN order THEN order[n] ELSE 0), 1>>

SweepLayerV1(bs, g, layer, l, forward) ==
  IF l \notin DOMAIN bs.groups \/ Len(bs.groups[l]) <= 1 THEN bs
  ELSE LET sorted == StableSort(bs.groups[l], Len(bs.groups[l]),
                       [x \in SeqRange(bs.groups[l]) |->
                          BaryV1(x, IF forward THEN g.parents[x] ELSE g.children[x],
                                 bs.order, g.func, layer,
                                 IF forward THEN l - 1 ELSE l + 1)])
       IN  [groups |-> [bs.groups EXCEPT ![l] = sorted],
            order  |-> SetOrder(bs.order, sorted)]

RECURSIVE SweepFromV1(_, _, _, _, _, _)
SweepFromV1(bs, g, layer, l, maxLayer, forward) ==
  IF forward
  THEN (IF l > maxLayer THEN bs
        ELSE SweepFromV1(SweepLayerV1(bs, g, layer, l, TRUE), g, layer, l + 1,
                         maxLayer, TRUE))
  ELSE (IF l < 0 THEN bs
        ELSE SweepFromV1(SweepLayerV1(bs, g, layer, l, FALSE), g, layer, l - 1,
                         maxLayer, FALSE))

RECURSIVE SweepsV1(_, _, _, _, _)
SweepsV1(bs, g, layer, maxLayer, pass) ==
  IF pass >= SWEEP_PASSES_V1 THEN bs
  ELSE SweepsV1(SweepFromV1(bs, g, layer, IF pass % 2 = 0 THEN 1 ELSE maxLayer - 1,
                            maxLayer, pass % 2 = 0),
                g, layer, maxLayer, pass + 1)

BarycenterV1(layer, g) ==
  SweepsV1([groups |-> GroupByLayer(layer, g),
            order  |-> InitialOrder(<<>>, GroupByLayer(layer, g),
                                    DOMAIN GroupByLayer(layer, g))],
           g, layer, MaxLayerOf(layer, g), 0)

FuncPositionsV1(bs) ==
  [x \in UNION {SeqRange(bs.groups[l]) : l \in DOMAIN bs.groups} |->
     LET l == CHOOSE k \in DOMAIN bs.groups : x \in SeqRange(bs.groups[k])
         i == (CHOOSE k \in DOMAIN bs.groups[l] : bs.groups[l][k] = x) - 1
     IN  [x |-> Frac(l * LAYER_GAP_X, 1),
          y |-> (0 - (Len(bs.groups[l]) * LAYER_GAP_Y_V1) \div 2) + i * LAYER_GAP_Y_V1]]

\* the keys of varTargets, in insertion order: first occurrence as a source
RECURSIVE VarSources(_, _)
VarSources(ves, seen) ==
  IF ves = <<>> THEN <<>>
  ELSE IF Head(ves).sourceNodeIndex \in seen THEN VarSources(Tail(ves), seen)
  ELSE <<Head(ves).sourceNodeIndex>>
       \o VarSources(Tail(ves), seen \cup {Head(ves).sourceNodeIndex})

\* varTargets.get(vn)
VarTargetSet(ves, vn) ==
  {e.targetNodeIndex : e \in {d \in SeqRange(ves) : d.sourceNodeIndex = vn}}

\* sumX and count over the targets that already have a position
RECURSIVE SumX(_, _)
SumX(ts, pos) ==
  IF ts = <<>> THEN <<<<0, 1>>, 0>>
  ELSE IF Head(ts) \in DOMAIN pos
       THEN <<FracAdd(pos[Head(ts)].x, SumX(Tail(ts), pos)[1]), 1 + SumX(Tail(ts), pos)[2]>>
       ELSE SumX(Tail(ts), pos)

\* count > 0 ? sumX / count : varCol * NODE_W
VarX(ts, pos, varCol) ==
  IF SumX(ts, pos)[2] > 0
  THEN Frac(SumX(ts, pos)[1][1], SumX(ts, pos)[1][2] * SumX(ts, pos)[2])
  ELSE Frac(varCol * NODE_W, 1)

PutPos(pos, k, p) == [x \in (DOMAIN pos) \cup {k} |-> IF x = k THEN p ELSE pos[x]]

\* for (const [vn, targets] of varTargets) on vp = [pos, varCol]
RECURSIVE PlaceVars(_, _, _, _, _)
PlaceVars(vp, srcs, k, ves, varBaseY) ==
  IF k > Len(srcs) THEN vp
  ELSE PlaceVars(
         [pos    |-> PutPos(vp.pos, srcs[k],
                       [x |-> VarX(Ascending(VarTargetSet(ves, srcs[k])), vp.pos, vp.varCol),
                        y |-> varBaseY + vp.varCol * VAR_STAGGER_V1]),
          varCol |-> vp.varCol + 1],
         srcs, k + 1, ves, varBaseY)

\* for (const vn of varNodes) if (!positions.has(vn))
RECURSIVE PlaceLooseVars(_, _, _, _)
PlaceLooseVars(vp, srcs, k, varBaseY) ==
  IF k > Len(srcs) THEN vp
  ELSE IF srcs[k] \in DOMAIN vp.pos THEN PlaceLooseVars(vp, srcs, k + 1, varBaseY)
  ELSE PlaceLooseVars(
         [pos    |-> PutPos(vp.pos, srcs[k],
                            [x |-> Frac(vp.varCol * NODE_W, 1), y |-> varBaseY]),
          varCol |-> vp.varCol + 1],
         srcs, k + 1, varBaseY)

VarBaseYV1(funcPos) == GlobalBottomY(funcPos) + LAYER_GAP_Y_V1 + 40

VarPositionsV1(funcPos, ves) ==
  PlaceLooseVars(
    PlaceVars([pos |-> funcPos, varCol |-> 0], VarSources(ves, {}), 1, ves,
              VarBaseYV1(funcPos)),
    VarSources(ves, {}), 1, VarBaseYV1(funcPos)).pos

RemainingPositionsV1(n, pos, funcPos) ==
  [x \in (DOMAIN pos) \cup (0..(n - 1)) |->
     IF x \in DOMAIN pos THEN pos[x]
     ELSE [x |-> Frac(((CHOOSE k \in DOMAIN Remaining(n, pos) : Remaining(n, pos)[k] = x) - 1)
                      * NODE_W, 1),
           y |-> VarBaseYV1(funcPos) + LAYER_GAP_Y_V1]]

LayoutFromSweepsV1(g, cs, kahn, bs) ==
  [queue     |-> kahn.queue,
   layer     |-> kahn.layer,
   groups    |-> bs.groups,
   nodeOrder |-> bs.order,
   funcPos   |-> FuncPositionsV1(bs),
   positions |-> RemainingPositionsV1(g.n,
                   VarPositionsV1(FuncPositionsV1(bs), FilterType(cs, "variable")),
                   FuncPositionsV1(bs))]

LayoutFromKahnV1(g, cs, kahn) ==
  LayoutFromSweepsV1(g, cs, kahn, BarycenterV1(kahn.layer, g))

layoutNodesV1(n, cs) ==
  LayoutFromKahnV1(LayoutGraph(n, cs), cs, KahnLoop(KahnStart(LayoutGraph(n, cs)),
                                                    LayoutGraph(n, cs), 0))

\* ------------------------------------------------------------------------
\* The layout as a state machine: an input graph, then each revision's run
\* ------------------------------------------------------------------------

MaxNodes == 5
MaxConns == 2
MaxLinked == 2
MaxShape == 3
MaxEdges == 3
MaxFan == 5
MaxVars == 7

\* a GSConnection as the layout reads it
Connection(kind, src, tgt) ==
  [connectionType |-> kind, sourceNodeIndex |-> src, targetNodeIndex |-> tgt]

\* the connections among the first MaxLinked of n nodes: every index in [0, n)
ConnectionsOver(n) ==
  {Connection(kind, src, tgt) :
     kind \in {"flow", "variable"},
     src \in 0..((IF n < MaxLinked THEN n ELSE MaxLinked) - 1),
     tgt \in 0..((IF n < MaxLinked THEN n ELSE MaxLinked) - 1)}

\* the sets of at most MaxEdges flow edges among MaxShape nodes
FlowEdgeSets ==
  {E \in SUBSET ((0..(MaxShape - 1)) \X (0..(MaxShape - 1))) : Cardinality(E) <= MaxEdges}

\* the edges of E as a connection list, by source and then by target
RECURSIVE EdgeList(_)
EdgeList(E) ==
  IF E = {} THEN <<>>
  ELSE LET e == CHOOSE x \in E :
                  \A y \in E : x[1] < y[1] \/ (x[1] = y[1] /\ x[2] <= y[2])
       IN  <<Connection("flow", e[1], e[2])>> \o EdgeList(E \ {e})

\* node 0 with flow connections to the children 1..k
Star(k) == [i \in 1..k |-> Connection("flow", 0, i)]

\* node 0, the variable nodes 1..k that feed it, and a loose node k + 1
VarFan(k) == [i \in 1..k |-> Connection("variable", i, 0)]

\* node 0 with flow connections to 1..k, which all flow into node k + 1
Hourglass(k) ==
  [i \in 1..(2 * k) |->
     IF i <= k THEN Connection("flow", 0, i) ELSE Connection("flow", i - k, k + 1)]

LayoutNodes ==
  /\ ~laidOut
  /\ layout' = layoutNodes(layoutNodeCount, layoutConns)
  /\ laidOut' = TRUE
  /\ UNCHANGED <<layoutNodeCount, layoutConns, laidOutV1, layoutV1, laidOutAgain,
                 layoutAgain, regVars, parseVars, vtVars>>

LayoutNodesV1 ==
  /\ ~laidOutV1
  /\ layoutV1' = layoutNodesV1(layoutNodeCount, layoutConns)
  /\ laidOutV1' = TRUE
  /\ UNCHANGED <<layoutNodeCount, layoutConns, laidOut, layout, laidOutAgain,
                 layoutAgain, regVars, parseVars, vtVars>>

\* a second call of layoutNodes with the arguments of the first
LayoutNodesAgain ==
  /\ laidOut
  /\ ~laidOutAgain
  /\ layoutAgain' = layoutNodes(layoutNodeCount, layoutConns).positions
  /\ laidOutAgain' = TRUE
  /\ UNCHANGED <<layoutNodeCount, layoutConns, laidOut, layout, laidOutV1, layoutV1,
                 regVars, parseVars, vtVars>>

\* the inputs: the graphs without connections, every short connection list
\* among the first nodes, every small set of flow edges, every star, every
\* fan of variable nodes and every hourglass
LayoutInputs ==
  {[n |-> n, cs |-> <<>>] : n \in 0..MaxNodes}
  \cup UNION {{[n |-> n, cs |-> cs] : cs \in SeqsUpTo(ConnectionsOver(n), MaxConns)} :
               n \in 0..(MaxLinked + 1)}
  \cup {[n |-> MaxShape, cs |-> EdgeList(E)] : E \in FlowEdgeSets}
  \cup {[n |-> k + 1, cs |-> Star(k)] : k \in 0..MaxFan}
  \cup {[n |-> k + 2, cs |-> VarFan(k)] : k \in 0..MaxVars}
  \cup {[n |-> k + 2, cs |-> Hourglass(k)] : k \in 0..MaxFan}

InitLayout ==
  /\ LoadedHashes
  /\ IdleParser
  /\ IdleValueType
  /\ \E input \in LayoutInputs :
       /\ layoutNodeCount = input.n
       /\ layoutConns = input.cs
  /\ laidOut = FALSE
  /\ layout = <<>>
  /\ laidOutV1 = FALSE
  /\ layoutV1 = <<>>
  /\ laidOutAgain = FALSE
  /\ layoutAgain = <<>>

NextLayout ==
  \/ LayoutNodes
  \/ LayoutNodesV1
  \/ LayoutNodesAgain

SpecLayout == InitLayout /\ [][NextLayout]_vars

\* ------------------------------------------------------------------------
\* Claims about the registry
\* ------------------------------------------------------------------------

\* the string offered first for hash h, over the whole history
FirstOffered(h) ==
  LET idx == {i \in DOMAIN regLog : hashString(regLog[i].s) = h}
      m   == CHOOSE i \in idx : \A j \in idx : i <= j
  IN  regLog[m].s

\* C4: after any sequence of registrations, resolve(h) is the string that
\* was registered first for h (a later string with the same hash never
\* replaces it).
C4_FirstRegistrationWins ==
  \A i \in DOMAIN regLog :
    resolveHash(hashString(regLog[i].s)) = FirstOffered(hashString(regLog[i].s))

\* C5: when the latest registerHashString call registered a string that an
\* earlier registration had stored, it left that string's hash mapped to it
\* (one entry) and changed the mapping of no other hash; when it repeated
\* the registration just before it, the whole registry is as it was.
C5_RegistryIdempotent ==
  (/\ regCalls >= 1
   /\ \E i \in 1..(Len(regLog) - 1) :
        regLog[i].stored /\ regLog[i].s = regLog[Len(regLog)].s)
  => LET s == regLog[Len(regLog)].s
         h == hashString(s)
     IN  /\ h \in DOMAIN KNOWN_HASHES
         /\ KNOWN_HASHES[h] = s
         /\ DOMAIN KNOWN_HASHES = DOMAIN regPrev
         /\ \A x \in DOMAIN regPrev : x # h => KNOWN_HASHES[x] = regPrev[x]
         /\ (regLog[Len(regLog) - 1] = [s |-> s, stored |-> TRUE]
               => KNOWN_HASHES = regPrev)

\* a registerHashString call has just repeated the preceding registration,
\* with another hash present in the registry
C5_Witness ==
  /\ regCalls >= 1
  /\ Len(regLog) >= 2
  /\ regLog[Len(regLog)].s = regLog[Len(regLog) - 1].s
  /\ regLog[Len(regLog) - 1].stored
  /\ Cardinality(DOMAIN KNOWN_HASHES) >= 2


\* ------------------------------------------------------------------------
\* Claims about the parser
\* ------------------------------------------------------------------------

\* the stages parse() has completed
PastHeader == pc \in {"header", "types", "instances", "graph", "resolved", "done"}
PastTypes == pc \in {"types", "instances", "graph", "resolved", "done"}
PastInstances == pc \in {"instances", "graph", "resolved", "done"}
PastGraph == pc \in {"graph", "resolved", "done"}

\* the first four bytes as a little-endian u32 (the buffer holds them)
Magic == GetUint32(buf, 0, TRUE)

\* every Data record of a DataSet and of the DataSets below it
RECURSIVE DataSetData(_)
DataSetData(ds) ==
  SeqRange(ds.data) \cup UNION {DataSetData(ds.dataSets[i]) : i \in DOMAIN ds.dataSets}

\* every Data record of a decoded graph
GraphData(g) ==
  {g.data} \cup UNION {DataSetData(g.nodes[i].dataSet) : i \in DOMAIN g.nodes}

\* the connection descriptors of node nd: the Data records of the pins under
\* output_pins and variable_pins
Descriptors(nd) ==
  UNION {SeqRange(pin.data) :
           pin \in UNION {SeqRange(cat.dataSets) :
                            cat \in {c \in SeqRange(nd.dataSet.dataSets) :
                                       c.name \in {HASH_OUTPUT_PINS, HASH_VARIABLE_PINS}}}}

\* C1: every connection extractConnections returns, flow or variable, has its
\* source and its target index in [0, graph.nodes.length).
C1_ConnectionClosure ==
  pc = "done" =>
    \A i \in DOMAIN connections :
      /\ connections[i].sourceNodeIndex \in 0..(Len(graph.nodes) - 1)
      /\ connections[i].targetNodeIndex \in 0..(Len(graph.nodes) - 1)

\* a decoded graph with a flow and a variable connection, one of whose
\* descriptors resolves to an index that is no node and was left out
C1_Witness ==
  /\ pc = "done"
  /\ \E i \in DOMAIN connections : connections[i].connectionType = "flow"
  /\ \E i \in DOMAIN connections : connections[i].connectionType = "variable"
  /\ \E n \in DOMAIN graph.nodes : \E cd \in Descriptors(graph.nodes[n]) :
       /\ Len(cd.value) >= 4
       /\ resolveConnectionTarget(graph.data.value,
                                  Num(GetUint32(cd.value, 0, littleEndian)),
                                  littleEndian) # <<>>
       /\ Num(resolveConnectionTarget(graph.data.value,
                                      Num(GetUint32(cd.value, 0, littleEndian)),
                                      littleEndian)) >= Len(graph.nodes)

\* C6: every Data record parseData produced has value.length equal to its
\* count field, whatever value offset and count the record stores.
C6_ValueLengthIsCount ==
  PastGraph => \A d \in GraphData(graph) : Len(d.value) = d.count

\* the payload offset parse() decodes from, and the global Data record's
\* stored value offset and count
PayloadOffset == instances[1].payloadOffset
GlobalValRel == Field(buf, PayloadOffset + 16 + 8, littleEndian)
GlobalValCount == Field(buf, PayloadOffset + 16 + 16, littleEndian)

\* C7: parsing returns a graph only if what the records declare lies inside
\* the buffer; here, the global Data record's reference-flag byte and its
\* value range [P + valueOffset, P + valueOffset + count).
C7_OutsideBufferFails ==
  PastGraph =>
    /\ InBuf(buf, PayloadOffset + 16 + 24, 1)
    /\ (GlobalValRel > 0 /\ GlobalValCount > 0
          => InBuf(buf, PayloadOffset + GlobalValRel, GlobalValCount))

\* what parse() holds after the header stage is what the readers give for
\* byte order le
DecodedWith(le) ==
  /\ littleEndian = le
  /\ PastHeader => header = HeaderFields(buf, le, Magic).v
  /\ PastTypes => types = parseTypes(buf, le, header).v
  /\ PastInstances => instances = parseInstances(buf, le, header).v
  /\ pc = "graph" => graph = parseGraph(KNOWN_HASHES, buf, le, PayloadOffset,
                                        PayloadOffset, MaxDepth).v
  /\ pc \in {"resolved", "done"} =>
       graph = resolveVariableNodeData(KNOWN_HASHES,
                 parseGraph(KNOWN_HASHES, buf, le, PayloadOffset, PayloadOffset,
                            MaxDepth).v, le)
  /\ pc = "done" => connections = extractConnections(graph, le)

\* C8: the first four bytes, read little-endian, select the byte order of
\* every later read: 0x41444620 little-endian, 0x20464441 big-endian; any
\* other value fails with BadMagic before the version or a directory is read.
C8_MagicSelectsEndianness ==
  (pc # "new" /\ InBuf(buf, 0, 4)) =>
    IF Magic = ADF_MAGIC_LE THEN DecodedWith(TRUE)
    ELSE IF Magic = ADF_MAGIC_BE THEN DecodedWith(FALSE)
    ELSE /\ pc = "failed"
         /\ err = "BadMagic"
         /\ header = <<>>
         /\ types = <<>>
         /\ instances = <<>>

\* a big-endian container decoded to the end, with a connection
C8_Witness ==
  /\ pc = "done"
  /\ Magic = ADF_MAGIC_BE
  /\ ~littleEndian
  /\ Len(graph.nodes) >= 1
  /\ Len(connections) >= 1

\* the version field, in the byte order the magic selects
VersionField == GetUint32(buf, 4, Magic = ADF_MAGIC_LE)

\* C9: with a valid magic, parsing goes past the header only for version 2,
\* 3 or 4; any other version fails with UnsupportedVersion and no type,
\* instance or graph is decoded.
C9_VersionGate ==
  (pc # "new" /\ InBuf(buf, 0, 8) /\ Magic \in {ADF_MAGIC_LE, ADF_MAGIC_BE}) =>
    IF VersionField \in {<<0, 2>>, <<0, 3>>, <<0, 4>>}
    THEN /\ err # "UnsupportedVersion"
         /\ PastHeader => header.version = VersionField[2]
    ELSE /\ pc = "failed"
         /\ err = "UnsupportedVersion"
         /\ header = <<>>
         /\ types = <<>>
         /\ instances = <<>>
         /\ graph = <<>>
         /\ connections = <<>>

\* a container with a valid magic and a version that is none of 2, 3, 4 has
\* been refused
C9_Witness ==
  /\ pc = "failed"
  /\ err = "UnsupportedVersion"
  /\ Magic \in {ADF_MAGIC_LE, ADF_MAGIC_BE}
  /\ VersionField \notin {<<0, 2>>, <<0, 3>>, <<0, 4>>}

\* the header and both directories of the buffer parse, and the instance
\* directory is empty
ParsesWithoutInstance ==
  /\ parseHeader(buf).ok
  /\ parseTypes(buf, parseHeader(buf).v.le, parseHeader(buf).v.header).ok
  /\ parseInstances(buf, parseHeader(buf).v.le, parseHeader(buf).v.header).ok
  /\ parseInstances(buf, parseHeader(buf).v.le, parseHeader(buf).v.header).v = <<>>

\* C10: a container whose header and directories parse and that holds no
\* instance makes parse() fail with NoInstance; no graph and no connections
\* are produced.  NoInstance is raised in no other case.
C10_NoInstanceFails ==
  /\ (ParsesWithoutInstance /\ pc \notin {"new", "header", "types", "instances"})
       => (pc = "failed" /\ err = "NoInstance" /\ graph = <<>> /\ connections = <<>>)
  /\ err = "NoInstance" => (pc = "failed" /\ ParsesWithoutInstance)

\* a container with a type directory and no instance has been refused
C10_Witness ==
  /\ pc = "failed"
  /\ err = "NoInstance"
  /\ Len(instances) = 0
  /\ header.instanceCount = 0
  /\ header.typeCount >= 1

\* the descriptor sites of node n (1-based) under its first child named hash:
\* <<n, p, d>> is Data record d of pin p of that child
SitesOfNode(g, n, hash) ==
  IF FindChild(g.nodes[n].dataSet.dataSets, hash) = <<>> THEN {}
  ELSE UNION {{<<n, p, d>> :
                 d \in DOMAIN FindChild(g.nodes[n].dataSet.dataSets, hash)[1].dataSets[p].data} :
              p \in DOMAIN FindChild(g.nodes[n].dataSet.dataSets, hash)[1].dataSets}

Sites(g, hash) == UNION {SitesOfNode(g, n, hash) : n \in DOMAIN g.nodes}

SitePin(g, s, hash) == FindChild(g.nodes[s[1]].dataSet.dataSets, hash)[1].dataSets[s[2]]
SiteData(g, s, hash) == SitePin(g, s, hash).data[s[3]]

\* o: the first 4 value bytes of descriptor cd as a u32
DescriptorOffset(cd, le) == Num(GetUint32(cd.value, 0, le))

\* t: the u32 of the global blob at o
BlobIndexAt(g, o, le) == Num(GetUint32(g.data.value, o, le))

\* cd has 4 value bytes, o + 4 <= blob length and t < node_count
Resolves(g, cd, le) ==
  /\ Len(cd.value) >= 4
  /\ DescriptorOffset(cd, le) + 4 <= Len(g.data.value)
  /\ BlobIndexAt(g, DescriptorOffset(cd, le), le) < Len(g.nodes)

ResolvedSites(g, hash, le) == {s \in Sites(g, hash) : Resolves(g, SiteData(g, s, hash), le)}

\* the flow connection the contract gives site s under output_pins
FlowOf(g, s, le) ==
  [sourceNodeIndex |-> s[1] - 1,
   sourceOutputPinHash |-> SitePin(g, s, HASH_OUTPUT_PINS).name,
   targetNodeIndex |-> BlobIndexAt(g, DescriptorOffset(SiteData(g, s, HASH_OUTPUT_PINS), le), le),
   targetInputPinHash |-> SiteData(g, s, HASH_OUTPUT_PINS).name,
   connectionType |-> "flow"]

\* the variable connection the contract gives site s under variable_pins
VariableOf(g, s, le) ==
  [sourceNodeIndex |-> BlobIndexAt(g, DescriptorOffset(SiteData(g, s, HASH_VARIABLE_PINS), le), le),
   sourceOutputPinHash |-> SitePin(g, s, HASH_VARIABLE_PINS).name,
   targetNodeIndex |-> s[1] - 1,
   targetInputPinHash |-> SitePin(g, s, HASH_VARIABLE_PINS).name,
   connectionType |-> "variable"]

\* how often record c occurs in list cs
Occurrences(cs, c) == Cardinality({i \in DOMAIN cs : cs[i] = c})

\* C11: the flow connections extractConnections returns are, one for one, the
\* connections (source=n, source_pin=p.name, target=t, target_pin=d.name) of
\* the Data records d under the pins p of n's output_pins child that have 4
\* value bytes, a blob offset o with o+4 <= blob length and an index
\* t < node_count; no flow connection has another origin.
C11_FlowFromOutputPins ==
  pc = "done" =>
    /\ \A s \in ResolvedSites(graph, HASH_OUTPUT_PINS, littleEndian) :
         Occurrences(connections, FlowOf(graph, s, littleEndian))
           = Cardinality({r \in ResolvedSites(graph, HASH_OUTPUT_PINS, littleEndian) :
                            FlowOf(graph, r, littleEndian) = FlowOf(graph, s, littleEndian)})
    /\ \A i \in DOMAIN connections :
         connections[i].connectionType = "flow" =>
           \E s \in ResolvedSites(graph, HASH_OUTPUT_PINS, littleEndian) :
             connections[i] = FlowOf(graph, s, littleEndian)

\* two nodes decoded: node 0's output pin resolves to node 1, and another
\* output descriptor of 4 bytes resolves to no node
C11_Witness ==
  /\ pc = "done"
  /\ Len(graph.nodes) = 2
  /\ \E s \in ResolvedSites(graph, HASH_OUTPUT_PINS, littleEndian) :
       s[1] = 1 /\ FlowOf(graph, s, littleEndian).targetNodeIndex = 1
  /\ \E s \in Sites(graph, HASH_OUTPUT_PINS) :
       /\ Len(SiteData(graph, s, HASH_OUTPUT_PINS).value) >= 4
       /\ ~Resolves(graph, SiteData(graph, s, HASH_OUTPUT_PINS), littleEndian)

\* C12: the variable connections extractConnections returns are, one for
\* one, the reversed connections (source=s, source_pin=p.name, target=n,
\* target_pin=p.name) of the Data records under the pins p of n's
\* variable_pins child whose dereference gives an index s < node_count; n is
\* the source of such a connection only when s = n.
C12_VariableReversed ==
  pc = "done" =>
    /\ \A s \in ResolvedSites(graph, HASH_VARIABLE_PINS, littleEndian) :
         Occurrences(connections, VariableOf(graph, s, littleEndian))
           = Cardinality({r \in ResolvedSites(graph, HASH_VARIABLE_PINS, littleEndian) :
                            VariableOf(graph, r, littleEndian) = VariableOf(graph, s, littleEndian)})
    /\ \A i \in DOMAIN connections :
         connections[i].connectionType = "variable" =>
           \E s \in ResolvedSites(graph, HASH_VARIABLE_PINS, littleEndian) :
             /\ connections[i] = VariableOf(graph, s, littleEndian)
             /\ connections[i].targetNodeIndex = s[1] - 1

\* two nodes decoded: a variable pin of node 1 dereferences to node 0, so the
\* connection runs from node 0 to node 1
C12_Witness ==
  /\ pc = "done"
  /\ Len(graph.nodes) = 2
  /\ \E s \in ResolvedSites(graph, HASH_VARIABLE_PINS, littleEndian) :
       /\ s[1] = 2
       /\ VariableOf(graph, s, littleEndian).sourceNodeIndex = 0
       /\ \E i \in DOMAIN connections : connections[i] = VariableOf(graph, s, littleEndian)

\* the index of the first child DataSet named hash
ChildIndex(dataSets, hash) ==
  CHOOSE i \in DOMAIN dataSets :
    /\ dataSets[i].name = hash
    /\ \A j \in DOMAIN dataSets : dataSets[j].name = hash => i <= j

RemoveAt(seq, k) == SubSeq(seq, 1, k - 1) \o SubSeq(seq, k + 1, Len(seq))

\* graph g with the descriptor at site s absent
WithoutSite(g, s, hash) ==
  [g EXCEPT !.nodes[s[1]].dataSet.dataSets[ChildIndex(g.nodes[s[1]].dataSet.dataSets, hash)]
              .dataSets[s[2]].data = RemoveAt(@, s[3])]

\* the sites under hash whose descriptor is malformed: fewer than 4 value
\* bytes, o + 4 > blob length, or an index >= node_count
MalformedSites(g, hash, le) == Sites(g, hash) \ ResolvedSites(g, hash, le)

\* C13: a descriptor with fewer than 4 value bytes, with o + 4 > blob length
\* or with an index >= node_count raises no error, and the connection list is
\* the list, in the same order, that the graph without that descriptor gives.
C13_MalformedSkipped ==
  /\ pc = "failed" => graph = <<>> /\ connections = <<>>
  /\ pc = "done" =>
       /\ err = "none"
       /\ \A hash \in {HASH_OUTPUT_PINS, HASH_VARIABLE_PINS} :
            \A s \in MalformedSites(graph, hash, littleEndian) :
              connections = extractConnections(WithoutSite(graph, s, hash), littleEndian)

\* a decoded graph with a connection and with descriptors of each malformed
\* kind: 2 value bytes, an offset past the blob, an index that is no node
C13_Witness ==
  /\ pc = "done"
  /\ Len(connections) >= 1
  /\ \E hash \in {HASH_OUTPUT_PINS, HASH_VARIABLE_PINS} :
       \E s \in Sites(graph, hash) : Len(SiteData(graph, s, hash).value) < 4
  /\ \E hash \in {HASH_OUTPUT_PINS, HASH_VARIABLE_PINS} :
       \E s \in Sites(graph, hash) :
         /\ Len(SiteData(graph, s, hash).value) >= 4
         /\ DescriptorOffset(SiteData(graph, s, hash), littleEndian) + 4
              > Len(graph.data.value)
  /\ \E hash \in {HASH_OUTPUT_PINS, HASH_VARIABLE_PINS} :
       \E s \in Sites(graph, hash) :
         /\ Len(SiteData(graph, s, hash).value) >= 4
         /\ DescriptorOffset(SiteData(graph, s, hash), littleEndian) + 4
              <= Len(graph.data.value)
         /\ BlobIndexAt(graph, DescriptorOffset(SiteData(graph, s, hash), littleEndian),
                        littleEndian) >= Len(graph.nodes)

\* parse() on buffer b as a function of b: byte order, payload offset, the
\* graph after resolveVariableNodeData, the connections
FileEndian(b) == parseHeader(b).v.le
FilePayload(b) ==
  parseInstances(b, FileEndian(b), parseHeader(b).v.header).v[1].payloadOffset
FileGraph(b) ==
  resolveVariableNodeData(KNOWN_HASHES,
    parseGraph(KNOWN_HASHES, b, FileEndian(b), FilePayload(b), FilePayload(b), MaxDepth).v,
    FileEndian(b))
FileConnections(b) == extractConnections(FileGraph(b), FileEndian(b))

\* a Data record without its raw value bytes
LogicalData(d) ==
  [name |-> d.name, type |-> d.type, count |-> d.count, reference |-> d.reference,
   resolvedName |-> d.resolvedName, resolvedType |-> d.resolvedType,
   displayValue |-> d.displayValue]

RECURSIVE LogicalDataSet(_)
LogicalDataSet(ds) ==
  [name |-> ds.name, resolvedName |-> ds.resolvedName,
   data |-> [i \in DOMAIN ds.data |-> LogicalData(ds.data[i])],
   dataSets |-> [i \in DOMAIN ds.dataSets |-> LogicalDataSet(ds.dataSets[i])]]

LogicalNode(nd) ==
  [classHash |-> nd.classHash, functionHash |-> nd.functionHash,
   resolvedClass |-> nd.resolvedClass, index |-> nd.index,
   dataSet |-> LogicalDataSet(nd.dataSet)]

\* the logical output of a parse: nodes, global data, connections, display
\* values, and the positions gsrcToFlow takes from layoutNodes
LogicalOutput(g, cs) ==
  [nodes |-> [i \in DOMAIN g.nodes |-> LogicalNode(g.nodes[i])],
   data |-> LogicalData(g.data),
   connections |-> cs,
   positions |-> layoutNodes(Len(g.nodes), cs).positions]

\* the same container written in the other byte order
Twin(sc) == [sc EXCEPT !.le = ~sc.le]

\* C19: a container and its twin in the other byte order (magic, header and
\* every multi-byte field byte-swapped) give the same logical output: nodes,
\* connections, display values and positions.
C19_EndianParity ==
  pc = "done" =>
    \A sc \in GraphScenarios :
      buf = FileBytes(sc) =>
        LogicalOutput(graph, connections)
          = LogicalOutput(FileGraph(FileBytes(Twin(sc))),
                          FileConnections(FileBytes(Twin(sc))))

\* the bytes fmtGlobalValue reads for a value of type varType
ValueWidth(varType) ==
  IF varType = "bool" THEN 1
  ELSE IF varType = "uint64" THEN 8
  ELSE IF varType = "vector" THEN 16
  ELSE IF varType = "event" THEN 0
  ELSE 4

\* the display and type label parseData gave record d
RawDisplay(d, le) == fmtVal(KNOWN_HASHES, d.value, LookupHash(KNOWN_HASHES, d.type), le)

\* field d of a node of class cls stores an offset whose dereference does
\* not fit the blob gd
DerefOutside(d, cls, gd, le) ==
  /\ Len(d.value) >= 4
  /\ \/ /\ d.resolvedName = StrName
        /\ DescriptorOffset(d, le) + 4 > Len(gd)
     \/ /\ d.resolvedName = StrValue
        /\ d.reference
        /\ DescriptorOffset(d, le) + ValueWidth(getVariableValueType(cls)) > Len(gd)

\* C21: a Name or Value field of a variable-class node whose stored offset o
\* has o + width > blob length keeps the display and the type label it got
\* when the record was decoded (width 4 for Name, the value type's width for
\* Value).
C21_DerefDiscarded ==
  pc \in {"resolved", "done"} =>
    \A n \in DOMAIN graph.nodes :
      IsVariableClass(graph.nodes[n].resolvedClass) =>
        \A i \in DOMAIN graph.nodes[n].dataSet.data :
          DerefOutside(graph.nodes[n].dataSet.data[i], graph.nodes[n].resolvedClass,
                       graph.data.value, littleEndian) =>
            /\ graph.nodes[n].dataSet.data[i].displayValue
                 = RawDisplay(graph.nodes[n].dataSet.data[i], littleEndian)
            /\ graph.nodes[n].dataSet.data[i].resolvedType
                 = LookupHash(KNOWN_HASHES, graph.nodes[n].dataSet.data[i].type)

\* the graph parseGraph returned, before resolveVariableNodeData ran
GraphBefore ==
  parseGraph(KNOWN_HASHES, buf, littleEndian, instances[1].payloadOffset,
             instances[1].payloadOffset, MaxDepth).v

\* a Data record without its display string and its resolved-type label
WithoutDisplay(d) ==
  [name |-> d.name, type |-> d.type, value |-> d.value, count |-> d.count,
   reference |-> d.reference, resolvedName |-> d.resolvedName]

\* C30: resolveVariableNodeData changes only the display string and the
\* resolved-type label of the records named Name or Value in the root DataSet
\* of variable-class nodes; every other part of every record, every other
\* node, the pin DataSets, the global data record and the node list stay.
C30_ResolveFrame ==
  pc \in {"resolved", "done"} =>
    LET before == GraphBefore
    IN  /\ graph.data = before.data
        /\ DOMAIN graph.nodes = DOMAIN before.nodes
        /\ \A n \in DOMAIN graph.nodes :
             /\ DOMAIN graph.nodes[n].dataSet.data = DOMAIN before.nodes[n].dataSet.data
             /\ [graph.nodes[n] EXCEPT !.dataSet.data = before.nodes[n].dataSet.data]
                  = before.nodes[n]
             /\ \A i \in DOMAIN graph.nodes[n].dataSet.data :
                  /\ WithoutDisplay(graph.nodes[n].dataSet.data[i])
                       = WithoutDisplay(before.nodes[n].dataSet.data[i])
                  /\ (graph.nodes[n].dataSet.data[i] # before.nodes[n].dataSet.data[i]) =>
                       /\ IsVariableClass(graph.nodes[n].resolvedClass)
                       /\ graph.nodes[n].dataSet.data[i].resolvedName \in {StrName, StrValue}

\* resolveVariableNodeData has changed the display of a Name field and of a
\* Value field
C30_Witness ==
  /\ pc \in {"resolved", "done"}
  /\ LET before == GraphBefore
     IN  \E n \in DOMAIN graph.nodes :
           \E i, j \in DOMAIN graph.nodes[n].dataSet.data :
             /\ graph.nodes[n].dataSet.data[i].resolvedName = StrName
             /\ graph.nodes[n].dataSet.data[i].displayValue
                  # before.nodes[n].dataSet.data[i].displayValue
             /\ graph.nodes[n].dataSet.data[j].resolvedName = StrValue
             /\ graph.nodes[n].dataSet.data[j].displayValue
                  # before.nodes[n].dataSet.data[j].displayValue

\* the DataSet records (0x30 bytes each) buffer b has room for: no walk that
\* reads a record once nests deeper
RecordsIn(b) == Len(b) \div 48

\* C25: decoding ends with a graph or an error after a walk bounded by the
\* payload size, also when a child-DataSet offset points back at the DataSet
\* or at an ancestor: when the walk runs out of call stack, a stack of one
\* frame for every DataSet record the buffer has room for is enough.
C25_WalkBounded ==
  err = "StackOverflow" =>
    parseGraph(KNOWN_HASHES, buf, littleEndian, instances[1].payloadOffset,
               instances[1].payloadOffset, RecordsIn(buf) + 1).err # "StackOverflow"

\* ------------------------------------------------------------------------
\* Claims about the layout
\* ------------------------------------------------------------------------

\* C2: for any node count n and any connection list with indices in [0, n),
\* both revisions of layoutNodes return a position map whose key set is
\* exactly {0, ..., n-1}, each key with one finite (x, y).
C2_LayoutTotal ==
  /\ laidOut =>
       /\ DOMAIN layout.positions = 0..(layoutNodeCount - 1)
       /\ \A k \in DOMAIN layout.positions :
            layout.positions[k].x \in Int /\ layout.positions[k].y \in Int
  /\ laidOutV1 =>
       /\ DOMAIN layoutV1.positions = 0..(layoutNodeCount - 1)
       /\ \A k \in DOMAIN layoutV1.positions :
            /\ layoutV1.positions[k].x[1] \in Int
            /\ layoutV1.positions[k].x[2] > 0
            /\ layoutV1.positions[k].y \in Int

\* the flow edges of a connection list as pairs, and the pairs joined by a
\* path of one or more flow edges
FlowPairs(cs) ==
  {<<c.sourceNodeIndex, c.targetNodeIndex>> : c \in SeqRange(FilterType(cs, "flow"))}

RECURSIVE PathPairs(_, _)
PathPairs(R, k) ==
  IF k = 0 THEN R
  ELSE PathPairs(R \cup {<<pq[1][1], pq[2][2]>> :
                           pq \in {x \in R \X R : x[1][2] = x[2][1]}}, k - 1)

\* both revisions have laid out a graph whose every node is on one flow cycle
C2_Witness ==
  /\ laidOut
  /\ laidOutV1
  /\ layoutNodeCount = 2
  /\ FlowPairs(layoutConns) = {<<0, 1>>, <<1, 0>>}


\* u and v are in one strongly connected component that contains a cycle:
\* a path of flow edges leads from each to the other
SameCycle(cs, n, u, v) ==
  /\ <<u, v>> \in PathPairs(FlowPairs(cs), n)
  /\ <<v, u>> \in PathPairs(FlowPairs(cs), n)

\* C3: in the final layer assignment (after layering, compaction and split),
\* every flow connection u -> v between functional nodes has
\* layer(u) < layer(v), unless u and v are in one strongly connected
\* component that contains a cycle.
C3_FlowLayersIncrease ==
  laidOut =>
    \A e \in FlowPairs(layoutConns) :
      (/\ e[1] \in FuncNodeSet(layoutNodeCount, layoutConns)
       /\ e[2] \in FuncNodeSet(layoutNodeCount, layoutConns)
       /\ ~SameCycle(layoutConns, layoutNodeCount, e[1], e[2]))
      => layout.layer[e[1]] < layout.layer[e[2]]

\* the connection list is exactly the flow edges E, each once
OnlyFlows(E) ==
  /\ Len(layoutConns) = Cardinality(E)
  /\ \A i \in DOMAIN layoutConns : layoutConns[i].connectionType = "flow"
  /\ FlowPairs(layoutConns) = E

\* C14: a graph of one node and no connection has node 0 at (0, 0), in both
\* revisions of layoutNodes.
C14_SingleNodeAtOrigin ==
  (layoutNodeCount = 1 /\ layoutConns = <<>>) =>
    /\ laidOut => layout.positions[0] = [x |-> 0, y |-> 0]
    /\ laidOutV1 => (/\ layoutV1.positions[0].x = Frac(0, 1)
                     /\ layoutV1.positions[0].y = 0)

\* C15: three nodes a, b, c with exactly the flow connections a -> b and
\* b -> c get layers 0, 1, 2 and x-coordinates 0, 360, 720, and each is alone
\* in its layer.
C15_ChainLayers ==
  laidOut =>
    \A a \in 0..2 : \A b \in 0..2 : \A c \in 0..2 :
      (layoutNodeCount = 3 /\ a # b /\ b # c /\ a # c /\ OnlyFlows({<<a, b>>, <<b, c>>})) =>
        /\ layout.layer[a] = 0 /\ layout.layer[b] = 1 /\ layout.layer[c] = 2
        /\ layout.positions[a].x = 0
        /\ layout.positions[b].x = 360
        /\ layout.positions[c].x = 720
        /\ layout.groups = [l \in 0..2 |-> IF l = 0 THEN <<a>> ELSE IF l = 1 THEN <<b>> ELSE <<c>>]

\* the chain 2 -> 0 -> 1 has been laid out
C15_Witness ==
  /\ laidOut
  /\ layoutNodeCount = 3
  /\ OnlyFlows({<<2, 0>>, <<0, 1>>})

\* C16: node 0 with flow connections to five children and no other
\* connection: after the split node 0 is in layer 0, four children are in
\* layer 1 and one child is in layer 2.
C16_FiveChildrenSplit ==
  (laidOut /\ layoutNodeCount = 6 /\ OnlyFlows({<<0, i>> : i \in 1..5})) =>
    /\ layout.layer[0] = 0
    /\ Cardinality({i \in 1..5 : layout.layer[i] = 1}) = 4
    /\ Cardinality({i \in 1..5 : layout.layer[i] = 2}) = 1
    /\ layout.maxLayer = 2

\* the star of five children has been laid out; before the split all five
\* children were in layer 1
C16_Witness ==
  /\ laidOut
  /\ layoutNodeCount = 6
  /\ OnlyFlows({<<0, i>> : i \in 1..5})
  /\ \A i \in 1..5 : layout.layerCompact[i] = 1

\* C17: after the layer split every layer holds at most MAX_PER_LAYER
\* functional nodes, by the layer array and by the layer groups.
C17_LayerBound ==
  laidOut =>
    /\ \A l \in DOMAIN layout.groups : Len(layout.groups[l]) <= MAX_PER_LAYER
    /\ \A l \in 0..layoutNodeCount :
         Cardinality({i \in FuncNodeSet(layoutNodeCount, layoutConns) :
                        layout.layer[i] = l}) <= MAX_PER_LAYER

\* a layout whose layer 1 held more than MAX_PER_LAYER nodes before the
\* split, with a layer in front of it
C17_Witness ==
  /\ laidOut
  /\ 0 \in DOMAIN layout.groupsBefore
  /\ 1 \in DOMAIN layout.groupsBefore
  /\ Len(layout.groupsBefore[1]) > MAX_PER_LAYER

OnFlowCycle(cs, n, v) ==
  /\ v \in FuncNodeSet(n, cs)
  /\ <<v, v>> \in PathPairs({e \in FlowPairs(cs) : /\ e[1] \in FuncNodeSet(n, cs)
                                                   /\ e[2] \in FuncNodeSet(n, cs)}, n)

\* C20: after longest-path layering and compaction, before the split, every
\* functional node on a flow cycle is at layer 0, also when it has a flow
\* parent outside the cycle.
C20_CycleAtLayerZero ==
  laidOut =>
    \A v \in 0..(layoutNodeCount - 1) :
      OnFlowCycle(layoutConns, layoutNodeCount, v) => layout.layerCompact[v] = 0

\* the sources of the variable connections of the layout's input
VariableSources == {c.sourceNodeIndex : c \in {d \in SeqRange(layoutConns) : d.connectionType = "variable"}}

\* C23: the variable grid holds exactly the sources of variable connections;
\* the i-th of them by ascending index stands at
\* (min_x + (i mod 6)*240, bottom_y + 160 + floor(i/6)*100), min_x and
\* bottom_y taken over the functional positions (0 each without any).
C23_VariableGrid ==
  laidOut =>
    LET fp == layout.funcPos
        minX == IF DOMAIN fp = {} THEN 0 ELSE MinOf({fp[k].x : k \in DOMAIN fp})
        bottomY == IF DOMAIN fp = {} THEN 0 ELSE MaxOf({fp[k].y : k \in DOMAIN fp})
        all == Ascending(VariableSources)
    IN  /\ DOMAIN fp = (0..(layoutNodeCount - 1)) \ VariableSources
        /\ \A x \in DOMAIN fp : layout.positions[x] = fp[x]
        /\ \A i \in 1..Len(all) :
             layout.positions[all[i]] =
               [x |-> minX + ((i - 1) % 6) * 240,
                y |-> bottomY + 160 + ((i - 1) \div 6) * 100]

\* a laid-out graph with a functional node and a second row in the grid
C23_Witness ==
  /\ laidOut
  /\ Cardinality(VariableSources) > VAR_COLS
  /\ DOMAIN layout.funcPos # {}
  /\ \E v, w \in VariableSources : layout.positions[v].y = layout.positions[w].y + 100

\* the functional nodes of the layout's input
FunctionalNodes == (0..(layoutNodeCount - 1)) \ VariableSources

\* the layers a layer of m nodes adds when it is split
ExtraLayers(m) == IF m <= MAX_PER_LAYER THEN 0 ELSE (m - 1) \div MAX_PER_LAYER

\* the layers added by the layers below l
RECURSIVE ExtraBelow(_, _)
ExtraBelow(groups, l) ==
  IF l <= 0 THEN 0
  ELSE (IF (l - 1) \in DOMAIN groups THEN ExtraLayers(Len(groups[l - 1])) ELSE 0)
       + ExtraBelow(groups, l - 1)

\* C24: the chunks of a split layer l take the layers l, l+1, ..., every
\* layer above moves right by the number of added layers and every layer
\* below stays; nodes of different layers before the split step keep their
\* strict layer order.
C24_SplitKeepsOrder ==
  laidOut =>
    /\ \A u \in FunctionalNodes :
         LET l == layout.layerCompact[u]
             i == CHOOSE k \in DOMAIN layout.groupsBefore[l] : layout.groupsBefore[l][k] = u
         IN  layout.layer[u] = l + ExtraBelow(layout.groupsBefore, l)
                                 + (i - 1) \div MAX_PER_LAYER
    /\ \A u, v \in FunctionalNodes :
         layout.layerCompact[u] < layout.layerCompact[v] => layout.layer[u] < layout.layer[v]

\* a split layer with a layer below it and a layer above it
C24_Witness ==
  /\ laidOut
  /\ \E l \in DOMAIN layout.groupsBefore :
       /\ Len(layout.groupsBefore[l]) > MAX_PER_LAYER
       /\ (l - 1) \in DOMAIN layout.groupsBefore
       /\ (l + 1) \in DOMAIN layout.groupsBefore

\* C27: no two nodes share a position; every variable node is at least 160
\* below every functional node.
C27_DistinctPositions ==
  laidOut =>
    /\ \A a, b \in 0..(layoutNodeCount - 1) :
         a # b => layout.positions[a] # layout.positions[b]
    /\ \A v \in VariableSources \cap (0..(layoutNodeCount - 1)), f \in FunctionalNodes :
         layout.positions[v].y >= layout.positions[f].y + 160

\* two functional nodes of one layer and two variable nodes
C27_Witness ==
  /\ laidOut
  /\ Cardinality(VariableSources) >= 2
  /\ \E a, b \in FunctionalNodes : a # b /\ layout.positions[a].x = layout.positions[b].x

\* the largest layer of the functional parents of node x, plus one (0
\* without such a parent)
ParentStep(layer, x) ==
  LET ps == {c.sourceNodeIndex :
               c \in {d \in SeqRange(layoutConns) :
                        /\ d.connectionType = "flow"
                        /\ d.targetNodeIndex = x
                        /\ d.sourceNodeIndex \in FunctionalNodes}}
  IN  IF ps = {} THEN 0 ELSE MaxOf({layer[q] + 1 : q \in ps})

IndicesInRange ==
  \A c \in SeqRange(layoutConns) :
    /\ c.sourceNodeIndex \in 0..(layoutNodeCount - 1)
    /\ c.targetNodeIndex \in 0..(layoutNodeCount - 1)

\* C29: with every connection index in range, every node has its position
\* before the final loop, which then assigns none.
C29_FinalLoopIdle ==
  (laidOut /\ IndicesInRange) =>
    /\ DOMAIN layout.gridPos = 0..(layoutNodeCount - 1)
    /\ layout.positions = layout.gridPos

\* a laid-out graph with functional nodes and variable nodes
C29_Witness ==
  /\ laidOut
  /\ IndicesInRange
  /\ VariableSources # {}
  /\ Cardinality(FunctionalNodes) >= 2

\* list cs with the entries at i and j exchanged
Swapped(cs, i, j) ==
  [k \in 1..Len(cs) |-> IF k = i THEN cs[j] ELSE IF k = j THEN cs[i] ELSE cs[k]]

\* list cs after every exchange of two of its entries; the exchanges generate
\* every permutation, and the lists of the inputs that hold every short list
\* are closed under them
Rearranged(cs) ==
  {Swapped(cs, q[1], q[2]) : q \in {r \in (1..Len(cs)) \X (1..Len(cs)) : r[1] < r[2]}}

\* C26: layoutNodes gives every node the same position for every order of
\* the same connections.
C26_OrderIndependent ==
  laidOut =>
    \A cs \in Rearranged(layoutConns) :
      layoutNodes(layoutNodeCount, cs).positions = layout.positions

\* a laid-out graph whose list holds a flow connection before a variable
\* connection of another source
C26_Witness ==
  /\ laidOut
  /\ Len(layoutConns) >= 2
  /\ layoutConns[1].connectionType = "flow"
  /\ layoutConns[2].connectionType = "variable"
  /\ layoutConns[1].sourceNodeIndex # layoutConns[2].sourceNodeIndex
  /\ \E cs \in Rearranged(layoutConns) : cs # layoutConns

\* ------------------------------------------------------------------------
\* Claims about getVariableValueType
\* ------------------------------------------------------------------------

\* the class name without one leading External or Global
Stripped(cls) ==
  IF StartsWith(cls, Cls_External) THEN SubSeq(cls, Len(Cls_External) + 1, Len(cls))
  ELSE IF StartsWith(cls, Cls_Global) THEN SubSeq(cls, Len(Cls_Global) + 1, Len(cls))
  ELSE cls

\* the value type of the prefix table (a row without a star is read as a
\* prefix as well)
TableType(base) ==
  IF StartsWith(base, Cls_VariableFloat) THEN "float"
  ELSE IF StartsWith(base, Cls_VariableInt) THEN "int"
  ELSE IF StartsWith(base, Cls_VariableBool) THEN "bool"
  ELSE IF StartsWith(base, Cls_VariableUint32) THEN "uint32"
  ELSE IF \E pfx \in {Cls_VariableUint64, Cls_VariableObject, Cls_VariableFile,
                      Cls_VariableGraphFile, Cls_VariableGlobalRef} : StartsWith(base, pfx)
       THEN "uint64"
  ELSE IF \E pfx \in {Cls_VariableString, Cls_VariableHash} : StartsWith(base, pfx)
       THEN "string_hash"
  ELSE IF \E pfx \in {Cls_VariableVector, Cls_VariableTransform} : StartsWith(base, pfx)
       THEN "vector"
  ELSE IF StartsWith(base, Cls_VariableEnum) THEN "enum"
  ELSE IF \E pfx \in {Cls_VariableEventSend, Cls_VariableEventReceive} : StartsWith(base, pfx)
       THEN "event"
  ELSE "uint32"

\* C22: getVariableValueType gives every class name the value type the
\* prefix table gives the name without one leading External or Global.
C22_ValueTypeTable ==
  vtDone => vtType = TableType(Stripped(vtClass))

====
